---- MODULE Spec2Model ----
(***************************************************************************)
(* Model of the activity feed of Tech Radar Express:                       *)
(*   - ActivityFeedManager (backend/core/activity_feed_manager.py): the    *)
(*     in-process cache, the Redis payloads, the Redis sorted index, the   *)
(*     per-user bookmark keys and the global counters;                     *)
(*   - RedisClient (backend/database/redis_client.py): the wrapper whose   *)
(*     set/get/exists/delete swallow every error;                          *)
(*   - ConnectionManager (backend/api/routes/websocket.py): the registry   *)
(*     of /ws connections, its groups, its replay history and its          *)
(*     broadcast.                                                          *)
(* Python runs the handlers on one asyncio loop: code between two awaits   *)
(* is atomic.  Spec, SpecOverlay, SpecWS and SpecReplay run each handler   *)
(* as one step; SpecConc splits add_activity and the Redis path of         *)
(* get_activities at their awaits.                                         *)
(***************************************************************************)
EXTENDS Integers, Sequences, FiniteSets, TLC

VARIABLES
    now,                \* the wall clock, in ticks (datetime.now())
    redis_up,           \* whether Redis answers
    recent_activities,  \* self.recent_activities: the cached ids, newest first
    activity_cache,     \* self.activity_cache: id -> the ActivityItem object
    redis_data,         \* keys activity:data:<id> -> serialized payload
    sorted_global,      \* sorted set activity:sorted:global: id -> score
    bookmark_keys,      \* keys activity:bookmarks:<user>:<id>, as <<user, id>>
    stats_global,       \* key activity:stats:global
    appended,           \* every add_activity call so far: what it was given and returned
    indexed_ever,       \* the ids whose zadd reached Redis
    ret,                \* what the last handler returned to its caller
    ops,                \* how many overlay and read calls were made
    calls,              \* those calls in order: what each was given, found and returned
    active_connections, \* connection_manager.active_connections: id -> websocket
    connection_groups,  \* connection_manager.connection_groups: group -> ids
    connection_metadata,\* connection_manager.connection_metadata: id -> metadata
    recent_messages,    \* connection_manager.recent_messages: the replay history
    sockets,            \* each websocket: the state of its transport
    delivered,          \* each websocket: the messages its client received
    joined,             \* each websocket: how many events existed when its connect() returned
    disconnect_calls,   \* each connection id: how often disconnect() was called for it
    handlers,           \* the endpoint handlers inside their receive loop:
                        \* connection id, websocket, endpoint
    pc,                 \* each add_activity task: the await it stands at
    local,              \* each add_activity task: its local variable activity
    reader,             \* the get_activities task: its await and its locals
    connections,        \* websocket_manager.connections: id -> WebSocketConnection
    user_connections,   \* websocket_manager.user_connections: user -> ids
    subscriptions,      \* websocket_manager.subscriptions: topic -> ids
    wanted,             \* each connection and group: the last control frame it sent
    cleanup_task,       \* websocket_manager._cleanup_task: whether the heartbeat task exists
    max_activities,     \* self.max_activities: how many events the cache holds
    max_activities_redis \* self.max_activities_redis: how many ids the index keeps

feedVars == <<now, redis_up, recent_activities, activity_cache, redis_data,
              sorted_global, bookmark_keys, stats_global, appended, indexed_ever,
              ret, ops, calls>>

wsVars == <<active_connections, connection_groups, connection_metadata,
            recent_messages, sockets, delivered, joined, disconnect_calls, handlers>>

concVars == <<pc, local, reader>>

topicVars == <<connections, user_connections, subscriptions, wanted, cleanup_task>>

configVars == <<max_activities, max_activities_redis>>

None == "None"

(***************************************************************************)
(* Bounds of the model.                                                    *)
(***************************************************************************)
MaxTime == 3        \* the clock runs over 0..MaxTime ticks
TicksPerMs == 2     \* ticks of datetime.now() per millisecond of score
HexSpace == 2       \* how many uuid4().hex[:8] values one millisecond can draw
MaxEvents == 3      \* add_activity calls in one behaviour
MaxOps == 2         \* overlay and read calls in one behaviour

(***************************************************************************)
(* Program constants, scaled so that eviction and trimming happen.         *)
(***************************************************************************)
\* max_activities and max_activities_redis (activity_feed_manager.py:93-94,
\* 1000 and 5000 in the source) are set when the manager is built: to
\* CacheSize and IndexSize, and to WideCacheSize and WideIndexSize where the
\* order inside the cache matters.  The cache is smaller than the index, as
\* in the source.
CacheSize == 1
IndexSize == 2
WideCacheSize == 3
WideIndexSize == 4

Users == {"u1", "u2"}

(***************************************************************************)
(* The enums: member name <-> value, as str-Enum does.                     *)
(***************************************************************************)
ActivityType == [INSIGHT_DISCOVERED |-> "insight_discovered",
                 CRITICAL_ALERT |-> "critical_alert"]
ActivityPriority == [NORMAL |-> "normal", HIGH |-> "high"]
ActivitySource == [SYSTEM |-> "system", USER |-> "user"]

\* Enum(value): the member whose value is v (ValueError when there is none).
EnumOf(enum, v) == CHOOSE m \in DOMAIN enum : enum[m] = v

\* What producers hand to add_activity.  title stands for the opaque fields
\* (title, description, details, url, source_name, tags, impact_score).
Inputs ==
    { [type |-> "INSIGHT_DISCOVERED", priority |-> "NORMAL", source |-> "SYSTEM",
       title |-> "t1", user_id |-> None, tech_areas |-> {}],
      [type |-> "CRITICAL_ALERT", priority |-> "HIGH", source |-> "USER",
       title |-> "t2", user_id |-> "u1", tech_areas |-> {"ai"}] }

(***************************************************************************)
(* Time, score and id.                                                     *)
(***************************************************************************)
\* int(activity.timestamp.timestamp() * 1000)
Score(t) == t \div TicksPerMs

\* f"activity_{int(time.time() * 1000)}_{uuid.uuid4().hex[:8]}": ids of equal
\* length compare as strings the way (ms, hex) compares, so the id is the number
\* ms * HexSpace + hex.
MakeId(t, hex) == Score(t) * HexSpace + hex

\* datetime.isoformat() and datetime.fromisoformat()
IsoFormat(t) == <<"iso", t>>
\* a parse that keeps the milliseconds only
FromIsoFormat_Millis(s) == Score(s[2]) * TicksPerMs

FromIsoFormat(s) == s[2]

(***************************************************************************)
(* ActivityItem, _serialize_activity, _deserialize_activity.               *)
(***************************************************************************)
NewActivity(inp, t, hex) ==
    [id |-> MakeId(t, hex), type |-> inp.type, priority |-> inp.priority,
     source |-> inp.source, title |-> inp.title, timestamp |-> t,
     user_id |-> inp.user_id, tech_areas |-> inp.tech_areas,
     read |-> FALSE, bookmarked |-> FALSE]

\* asdict(activity) with the timestamp as text; json.dumps writes a str-Enum
\* member as its value.
SerializeActivity(a) ==
    [id |-> a.id, type |-> ActivityType[a.type],
     priority |-> ActivityPriority[a.priority],
     source |-> ActivitySource[a.source], title |-> a.title,
     timestamp |-> IsoFormat(a.timestamp), user_id |-> a.user_id,
     tech_areas |-> a.tech_areas, read |-> a.read, bookmarked |-> a.bookmarked]

DeserializeActivity(d) ==
    [id |-> d.id, type |-> EnumOf(ActivityType, d.type),
     priority |-> EnumOf(ActivityPriority, d.priority),
     source |-> EnumOf(ActivitySource, d.source), title |-> d.title,
     timestamp |-> FromIsoFormat(d.timestamp), user_id |-> d.user_id,
     tech_areas |-> d.tech_areas, read |-> d.read, bookmarked |-> d.bookmarked]

(***************************************************************************)
(* Sequences and finite maps.                                              *)
(***************************************************************************)
Min2(a, b) == IF a < b THEN a ELSE b
Max2(a, b) == IF a > b THEN a ELSE b

\* s[lo:hi] of Python, 0-based, lo and hi >= 0
Slice(s, lo, hi) == SubSeq(s, Min2(lo, Len(s)) + 1, Min2(hi, Len(s)))

Range(s) == {s[i] : i \in 1..Len(s)}

MapPut(m, k, v) == [x \in DOMAIN m \cup {k} |-> IF x = k THEN v ELSE m[x]]
MapDrop(m, ks) == [x \in DOMAIN m \ ks |-> m[x]]
EmptyMap == [x \in {} |-> None]

(***************************************************************************)
(* The Redis sorted set: members ordered by (score, member).               *)
(***************************************************************************)
ZLess(zs, a, b) == zs[a] < zs[b] \/ (zs[a] = zs[b] /\ a < b)

\* rank of member a, 0-based, lowest score first
ZRank(zs, a) == Cardinality({b \in DOMAIN zs : ZLess(zs, b, a)})

\* the members in rank order
ZAscending(zs) ==
    [i \in 1..Cardinality(DOMAIN zs) |->
        CHOOSE a \in DOMAIN zs : ZRank(zs, a) = i - 1]

Reverse(s) == [i \in 1..Len(s) |-> s[Len(s) + 1 - i]]

ZAdd(zs, member, score) == MapPut(zs, member, score)

\* a rank argument of Redis: negative counts from the end
ZIndex(i, n) == IF i < 0 THEN n + i ELSE i

ZRemRangeByRank(zs, start, stop) ==
    LET n == Cardinality(DOMAIN zs)
        lo == Max2(ZIndex(start, n), 0)
        hi == Min2(ZIndex(stop, n), n - 1)
    IN  MapDrop(zs, {a \in DOMAIN zs : ZRank(zs, a) >= lo /\ ZRank(zs, a) <= hi})

\* highest score first, ranks start..stop inclusive
ZRevRange(zs, start, stop) ==
    LET n == Cardinality(DOMAIN zs)
        lo == Max2(ZIndex(start, n), 0)
        hi == Min2(ZIndex(stop, n), n - 1)
    IN  IF lo > hi THEN <<>> ELSE SubSeq(Reverse(ZAscending(zs)), lo + 1, hi + 1)

(***************************************************************************)
(* ConnectionManager (api/routes/websocket.py).  The registry is handled   *)
(* as one record R so that send, disconnect and broadcast, which call each *)
(* other, are functions of it.                                             *)
(***************************************************************************)
max_history == 50     \* websocket.py:65
HistoryReplay == 10   \* websocket.py:232, recent_messages[-10:]

Groups == {"dashboard", "notifications", "admin", "global"}
DashboardGroups == <<"dashboard", "notifications", "global">>
AdminGroups == <<"admin", "global">>

Registry ==
    [active |-> active_connections, groups |-> connection_groups,
     meta |-> connection_metadata, history |-> recent_messages,
     socks |-> sockets, delivered |-> delivered, disc |-> disconnect_calls]

\* WebSocketMessage: data is (what, ref, n); id and timestamp are not modelled.
Message(type, what, ref, n, priority, badge, dismiss) ==
    [type |-> type, what |-> what, ref |-> ref, n |-> n, priority |-> priority,
     badge_text |-> badge, auto_dismiss |-> dismiss]

\* _broadcast_activity, lines 664-683
\* (n is the activity's timestamp)
ActivityMessage(a) ==
    Message("USER_ACTION", "new_activity", a.id, a.timestamp, "low", "NEW", None)

\* connect, lines 101-110
WelcomeMessage(c, total) ==
    Message("SYSTEM_STATUS", "user_connected", c, total, "normal", "NEW USER", "3")

\* disconnect, lines 141-150
GoodbyeMessage(c, total) ==
    Message("SYSTEM_STATUS", "user_disconnected", c, total, "low", None, "2")

\* websocket_dashboard, lines 288-303
ConnectedMessage(c) ==
    Message("SYSTEM_STATUS", "connected", c, 0, "normal", "CONNECTED", "5")

\* websocket_admin, lines 356-362
AdminStatsMessage(c, total) ==
    Message("SYSTEM_STATUS", "admin_connected", c, total, "normal", None, None)

\* _send_history_to_connection, lines 236-238
Historical(m) == [m EXCEPT !.badge_text = None, !.auto_dismiss = None]

\* _add_to_history
AddToHistory(history, m) ==
    LET h == Append(history, m)
    IN  IF Len(h) > max_history THEN SubSeq(h, Len(h) - max_history + 1, Len(h)) ELSE h

MinOf(S) == CHOOSE x \in S : \A y \in S : x <= y

RECURSIVE SendPersonalMessage(_, _, _)
RECURSIVE Disconnect(_, _)
RECURSIVE BroadcastToGroup(_, _, _, _)
RECURSIVE SendEach(_, _, _)

\* send_personal_message: an unknown id is skipped; a transport that is not
\* CONNECTED, or whose send_text raises, leads to disconnect(connection_id).
\* A socket is "CONNECTED" (send_text works), "BROKEN" (client_state is still
\* CONNECTED and send_text raises) or "DISCONNECTED" (client_state).
SendPersonalMessage(R, m, c) ==
    IF c \notin DOMAIN R.active THEN R
    ELSE LET s == R.active[c]
         IN  CASE R.socks[s] = "CONNECTED" -> [R EXCEPT !.delivered[s] = Append(@, m)]
               [] R.socks[s] = "BROKEN" -> Disconnect(R, c)
               [] OTHER -> Disconnect(R, c)

\* the tasks of asyncio.gather, run in the order of the connection ids
SendEach(R, m, targets) ==
    IF targets = {} THEN R
    ELSE LET c == MinOf(targets)
         IN  SendEach(SendPersonalMessage(R, m, c), m, targets \ {c})

BroadcastToGroup(R, group, m, exclude) ==
    IF group \notin DOMAIN R.groups THEN R
    ELSE LET targets == R.groups[group] \ exclude
         IN  IF targets = {} THEN R
             ELSE SendEach([R EXCEPT !.history = AddToHistory(@, m)], m, targets)

\* disconnect that takes the id out of the groups and the metadata and
\* leaves it in active_connections
Disconnect_KeepsActive(R, c) ==
    LET R1 == [R EXCEPT !.groups = [g \in DOMAIN @ |-> @[g] \ {c}],
                        !.meta = MapDrop(@, {c}),
                        !.disc[c] = @ + 1]
        total == Cardinality(DOMAIN R1.active)
    IN  IF total > 0
        THEN BroadcastToGroup(R1, "admin", GoodbyeMessage(c, total), {})
        ELSE R1

Disconnect(R, c) ==
    LET R1 == [R EXCEPT !.groups = [g \in DOMAIN @ |-> @[g] \ {c}],
                        !.active = MapDrop(@, {c}),
                        !.meta = MapDrop(@, {c}),
                        !.disc[c] = @ + 1]
        total == Cardinality(DOMAIN R1.active)
    IN  IF total > 0
        THEN BroadcastToGroup(R1, "admin", GoodbyeMessage(c, total), {})
        ELSE R1

\* _send_history_to_connection that clears the flags of the stored message,
\* with no copy
RECURSIVE SendHistory_InPlace(_, _, _)
SendHistory_InPlace(R, msgs, c) ==
    IF msgs = <<>> THEN R
    ELSE LET R1 == [R EXCEPT !.history =
                        [i \in 1..Len(@) |->
                            IF i = Len(@) - Len(msgs) + 1 THEN Historical(@[i])
                            ELSE @[i]]]
         IN  SendHistory_InPlace(SendPersonalMessage(R1, Historical(Head(msgs)), c),
                                 Tail(msgs), c)

\* _send_history_to_connection: the last 10 messages, each as a copy with
\* badge_text and auto_dismiss cleared
RECURSIVE SendHistory(_, _, _)
SendHistory(R, msgs, c) ==
    IF msgs = <<>> THEN R
    ELSE SendHistory(SendPersonalMessage(R, Historical(Head(msgs)), c), Tail(msgs), c)

LastN(s, n) == SubSeq(s, Max2(Len(s) - n, 0) + 1, Len(s))

\* connect: accept, register (an id already registered is overwritten), replay
\* the history, tell the admins
Connect(R, s, c, groups) ==
    LET R1 == [R EXCEPT !.active = MapPut(@, c, s),
                        !.groups = [g \in DOMAIN @ |->
                                       IF g \in Range(groups) THEN @[g] \cup {c}
                                       ELSE @[g]],
                        !.meta = MapPut(@, c, [groups |-> groups])]
        R2 == SendHistory(R1, LastN(R1.history, HistoryReplay), c)
    IN  BroadcastToGroup(R2, "admin",
                         WelcomeMessage(c, Cardinality(DOMAIN R2.active)), {c})

(***************************************************************************)
(* WebSocketManager (core/websocket_manager.py), handled as one record W   *)
(* in the same way.  Its websockets are in sockets and delivered too.      *)
(***************************************************************************)
connection_timeout == 1   \* websocket_manager.py:37 (120 s), in ticks

Topics ==
    [conns |-> connections, users |-> user_connections, subs |-> subscriptions,
     socks |-> sockets, delivered |-> delivered, task |-> cleanup_task]

\* f"ws_{int(time.time() * 1000)}_{uuid.uuid4().hex[:8]}": an id no other
\* connection has, here a number apart from the ids of ConnectionManager
WsmId(s) == 100 + s

\* the messages of WebSocketManager; their timestamps are not modelled, nor
\* the timestamp and connection id that _send_to_connection adds
TopicMessage(type, ref, n) == Message(type, type, ref, n, None, None, None)

\* _broadcast_activity, lines 640-654
NewActivityMessage(a) == TopicMessage("new_activity", a.id, a.timestamp)

\* a set shrinks by c, and a key whose set becomes empty is deleted
Discard(m, ks, c) ==
    [k \in {x \in DOMAIN m : ~(x \in ks /\ m[x] \ {c} = {})} |->
        IF k \in ks THEN m[k] \ {c} ELSE m[k]]

\* disconnect that leaves user_connections as it is
WsmDisconnectOn_KeepsUser(W, c) ==
    IF c \notin DOMAIN W.conns THEN W
    ELSE [W EXCEPT !.subs = Discard(@, W.conns[c].subscriptions, c),
                   !.conns = MapDrop(@, {c})]

\* WebSocketManager.disconnect
WsmDisconnectOn(W, c) ==
    IF c \notin DOMAIN W.conns THEN W
    ELSE LET conn == W.conns[c]
         IN  [W EXCEPT !.subs = Discard(@, conn.subscriptions, c),
                       !.users = IF conn.user_id # None
                                 THEN Discard(@, {conn.user_id}, c)
                                 ELSE @,
                       !.conns = MapDrop(@, {c}),
                       !.task = @ /\ DOMAIN W.conns # {c}]

\* _send_to_connection: send_text raises on a transport that is broken or
\* closed, and the handler of the exception disconnects
SendToConnection(W, c, m) ==
    IF c \notin DOMAIN W.conns THEN W
    ELSE LET s == W.conns[c].websocket
         IN  IF W.socks[s] = "CONNECTED"
             THEN [W EXCEPT !.delivered[s] = Append(@, m)]
             ELSE WsmDisconnectOn(W, c)

\* for connection_id in connection_ids: await self._send_to_connection(...)
RECURSIVE SendToEach(_, _, _)
SendToEach(W, m, targets) ==
    IF targets = {} THEN W
    ELSE LET c == MinOf(targets)
         IN  SendToEach(SendToConnection(W, c, m), m, targets \ {c})

\* broadcast_to_topic
BroadcastToTopic(W, topic, m) ==
    IF topic \notin DOMAIN W.subs THEN W
    ELSE SendToEach(W, m, W.subs[topic])

\* subscribe: what it returns and the registry it leaves
WsmSubscribeOn(W, c, topic) ==
    IF c \notin DOMAIN W.conns THEN [ok |-> FALSE, W |-> W]
    ELSE [ok |-> TRUE,
          W |-> [W EXCEPT !.conns[c].subscriptions = @ \cup {topic},
                          !.subs = MapPut(@, topic,
                                          (IF topic \in DOMAIN @ THEN @[topic]
                                           ELSE {}) \cup {c})]]

\* connect, lines 42-73
WsmConnectOn(W, s, c, user, t) ==
    LET W1 == [W EXCEPT !.socks = MapPut(@, s, "CONNECTED"),
                        !.delivered = MapPut(@, s, <<>>),
                        !.conns = MapPut(@, c, [websocket |-> s, user_id |-> user,
                                                last_ping |-> t,
                                                subscriptions |-> {}]),
                        !.users = IF user # None
                                  THEN MapPut(@, user,
                                              (IF user \in DOMAIN @ THEN @[user]
                                               ELSE {}) \cup {c})
                                  ELSE @,
                        !.task = @ \/ DOMAIN W.conns \cup {c} = {c}]
    IN  SendToConnection(W1, c, TopicMessage("connection_established", c, 0))

\* handle_message: "ping" is answered, "subscribe" subscribes and is
\* confirmed, every other type is left unanswered
HandleMessageOn(W, c, type, topic, t) ==
    IF c \notin DOMAIN W.conns THEN W
    ELSE LET W1 == [W EXCEPT !.conns[c].last_ping = t]
         IN  CASE type = "ping" -> SendToConnection(W1, c, TopicMessage("pong", c, 0))
               [] type = "subscribe" ->
                    SendToConnection(WsmSubscribeOn(W1, c, topic).W, c,
                                     TopicMessage("subscription_confirmed", c, 0))
               [] OTHER -> W1

\* _cleanup_connections, one sweep: the connections whose last_ping is older
\* than the timeout are disconnected
RECURSIVE DisconnectEach(_, _)
DisconnectEach(W, cs) ==
    IF cs = {} THEN W
    ELSE LET c == MinOf(cs)
         IN  DisconnectEach(WsmDisconnectOn(W, c), cs \ {c})

CleanupOn(W, t) ==
    DisconnectEach(W, {c \in DOMAIN W.conns :
                          W.conns[c].last_ping < t - connection_timeout})

(***************************************************************************)
(* ActivityFeedManager: the pure parts.                                    *)
(***************************************************************************)
NoSince == -1    \* since=None

NoFilter == [types |-> {}, priorities |-> {}, sources |-> {}, user_id |-> None,
             tech_areas |-> {}, since |-> NoSince, include_system |-> TRUE]

\* _filter_activities with since as an exclusive bound
Matches_SinceExclusive(a, f) ==
    /\ f.since # NoSince => a.timestamp > f.since
    /\ f.types # {} => a.type \in f.types
    /\ f.priorities # {} => a.priority \in f.priorities
    /\ f.sources # {} => a.source \in f.sources
    /\ f.user_id # None => (a.user_id = f.user_id \/ a.user_id = None)
    /\ f.tech_areas # {} => a.tech_areas \cap f.tech_areas # {}
    /\ ~f.include_system => a.source # "SYSTEM"

\* _filter_activities: an empty or None filter is not applied
Matches(a, f) ==
    /\ f.since # NoSince => a.timestamp >= f.since
    /\ f.types # {} => a.type \in f.types
    /\ f.priorities # {} => a.priority \in f.priorities
    /\ f.sources # {} => a.source \in f.sources
    /\ f.user_id # None => (a.user_id = f.user_id \/ a.user_id = None)
    /\ f.tech_areas # {} => a.tech_areas \cap f.tech_areas # {}
    /\ ~f.include_system => a.source # "SYSTEM"

FilterActivities(acts, f) == SelectSeq(acts, LAMBDA a : Matches(a, f))

\* add_activity, lines 168-175: insert at the front, evict the tail
CacheInsert(recent, cache, a) ==
    LET r1 == <<a.id>> \o recent
        c1 == MapPut(cache, a.id, a)
    IN  IF Len(r1) > max_activities
        THEN [recent |-> SubSeq(r1, 1, Len(r1) - 1),
              cache |-> MapDrop(c1, {r1[Len(r1)]})]
        ELSE [recent |-> r1, cache |-> c1]

\* _add_to_sorted_list with the score counted backwards
AddToSortedList_ScoreNegated(index, a, up) ==
    IF up
    THEN ZRemRangeByRank(ZAdd(index, a.id, 0 - Score(a.timestamp)),
                         0, -(max_activities_redis + 1))
    ELSE index

\* _add_to_sorted_list: zadd, then zremrangebyrank(0, -(max + 1)).  A Redis
\* error is logged and the index is left as it was.
AddToSortedList(index, a, up) ==
    IF up
    THEN ZRemRangeByRank(ZAdd(index, a.id, Score(a.timestamp)),
                         0, -(max_activities_redis + 1))
    ELSE index

\* _save_activity_to_redis, the payload: RedisClient.set returns False on error
SavePayload(data, a, up) ==
    IF up THEN MapPut(data, a.id, SerializeActivity(a)) ELSE data

Counter(c, k) == IF k \in DOMAIN c THEN c[k] ELSE 0

\* _update_activity_stats: get (None on error) or {}, three counters, set
BumpStats(stats, a) ==
    LET tc == <<"total", "count">>
        c1 == MapPut(stats.counters, tc, Counter(stats.counters, tc) + 1)
        tk == <<"type", ActivityType[a.type]>>
        c2 == MapPut(c1, tk, Counter(c1, tk) + 1)
        pk == <<"priority", ActivityPriority[a.priority]>>
        c3 == MapPut(c2, pk, Counter(c2, pk) + 1)
    IN  [counters |-> c3, last_activity |-> IsoFormat(a.timestamp)]

UpdateActivityStats(stats, a, up) == IF up THEN BumpStats(stats, a) ELSE stats

\* get_activity_by_id: the cache first, then Redis; <<>> stands for None
GetById(cache, data, up, id) ==
    IF id \in DOMAIN cache THEN <<cache[id]>>
    ELSE IF up /\ id \in DOMAIN data THEN <<DeserializeActivity(data[id])>>
    ELSE <<>>

GetActivityById(id) == GetById(activity_cache, redis_data, redis_up, id)

\* user_id.split(":"): a user id is any string the caller sends
Segments(user) == IF user = "u1:x" THEN <<"u1", "x">> ELSE <<user>>

\* f"activity:bookmarks:{user_id}:{activity_id}", as its ":"-separated segments
KeyName(k) == <<"activity", "bookmarks">> \o Segments(k[1]) \o <<ToString(k[2])>>

\* f"activity:bookmarks:{user_id}:*"
KeyPattern(user) == <<"activity", "bookmarks">> \o Segments(user) \o <<"*">>

\* the glob match of Redis KEYS on whole segments: "*" stands for any text,
\* ":" included, so for one segment or more
RECURSIVE GlobMatch(_, _)
GlobMatch(pattern, name) ==
    IF pattern = <<>> THEN name = <<>>
    ELSE IF name = <<>> THEN FALSE
    ELSE IF Head(pattern) = "*"
         THEN \E n \in 1..Len(name) :
                  GlobMatch(Tail(pattern), SubSeq(name, n + 1, Len(name)))
    ELSE Head(pattern) = Head(name) /\ GlobMatch(Tail(pattern), Tail(name))

\* _get_user_bookmarked_ids: keys("activity:bookmarks:<user>:*"), last segment;
\* an error of Redis is caught and gives set()
UserBookmarkedIds(keys, user, up) ==
    IF up
    THEN {k[2] : k \in {x \in keys : GlobMatch(KeyPattern(user), KeyName(x))}}
    ELSE {}

\* activities.sort(key=lambda a: a.timestamp, reverse=True)
SortNewestFirst(acts) ==
    [i \in 1..Cardinality(acts) |->
        CHOOSE a \in acts :
            Cardinality({b \in acts : b.timestamp > a.timestamp}) = i - 1]

\* get_bookmarked_activities: what it returns, and the cached objects it
\* sets bookmarked on
GetBookmarkedActivities(keys, cache, data, up, user, limit, offset) ==
    LET ids == UserBookmarkedIds(keys, user, up)
        found == {i \in ids : GetById(cache, data, up, i) # <<>>}
        acts == {[GetById(cache, data, up, i)[1] EXCEPT !.bookmarked = TRUE] :
                    i \in found}
        sorted == SortNewestFirst(acts)
    IN  [result |-> Slice(sorted, offset, offset + limit),
         cache |-> [i \in DOMAIN cache |->
                       IF i \in found THEN [cache[i] EXCEPT !.bookmarked = TRUE]
                       ELSE cache[i]]]

\* _load_activities_from_redis, lines 585-608: one get for each id, a miss
\* (None, also what RedisClient.get returns on error) is left out
LoadPayloads(ids, data, up, limit, f) ==
    LET have == SelectSeq(ids, LAMBDA i : up /\ i \in DOMAIN data)
        acts == [k \in 1..Len(have) |-> DeserializeActivity(data[have[k]])]
    IN  Slice(FilterActivities(acts, f), 0, limit)

\* _load_activities_from_redis: zrevrange raises when Redis is away, and the
\* handler of the exception returns []
LoadActivitiesFromRedis(index, data, up, limit, f) ==
    IF ~up THEN <<>>
    ELSE LoadPayloads(ZRevRange(index, 0, limit * 2), data, up, limit, f)

SetBookmarked(acts, ids) ==
    [k \in 1..Len(acts) |-> [acts[k] EXCEPT !.bookmarked = (acts[k].id \in ids)]]

\* get_activities: what it returns and what it leaves in the cache
GetActivities(limit, offset, f) ==
    IF offset = 0 /\ limit <= Len(recent_activities)
    THEN LET objs == [k \in 1..Len(recent_activities) |->
                         activity_cache[recent_activities[k]]]
             hit == FilterActivities(objs, f)
             marked == IF f.user_id # None
                       THEN SetBookmarked(hit,
                                UserBookmarkedIds(bookmark_keys, f.user_id, redis_up))
                       ELSE hit
         IN  [result |-> Slice(marked, 0, limit),
              cache |-> [i \in DOMAIN activity_cache |->
                           IF \E k \in 1..Len(marked) : marked[k].id = i
                           THEN marked[CHOOSE k \in 1..Len(marked) : marked[k].id = i]
                           ELSE activity_cache[i]]]
    ELSE LET acts == LoadActivitiesFromRedis(sorted_global, redis_data, redis_up,
                                             limit + offset, f)
             marked == IF f.user_id # None
                       THEN SetBookmarked(acts,
                                UserBookmarkedIds(bookmark_keys, f.user_id, redis_up))
                       ELSE acts
         IN  [result |-> Slice(marked, offset, offset + limit),
              cache |-> activity_cache]

(***************************************************************************)
(* The handlers of ActivityFeedManager, each as one step.                  *)
(***************************************************************************)
SetRegistry(R) ==
    /\ active_connections' = R.active
    /\ connection_groups' = R.groups
    /\ connection_metadata' = R.meta
    /\ recent_messages' = R.history
    /\ sockets' = R.socks
    /\ delivered' = R.delivered
    /\ disconnect_calls' = R.disc

SetTopics(W) ==
    /\ connections' = W.conns
    /\ user_connections' = W.users
    /\ subscriptions' = W.subs
    /\ cleanup_task' = W.task

\* _broadcast_activity, lines 639-655: the topic "activity_feed" of
\* WebSocketManager
BroadcastActivityToTopic(W, a) == BroadcastToTopic(W, "activity_feed", NewActivityMessage(a))

\* the registry of ConnectionManager with the websockets as W left them
After(W) == [Registry EXCEPT !.socks = W.socks, !.delivered = W.delivered]

\* _broadcast_activity, lines 661-687: the same message goes to two groups
\* of ConnectionManager
BroadcastActivity(R, a) ==
    LET m == ActivityMessage(a)
    IN  BroadcastToGroup(BroadcastToGroup(R, "dashboard", m, {}),
                         "notifications", m, {})

UsedIds == {appended[i].id : i \in 1..Len(appended)}

\* the ids callers ask for: every id returned so far, and one never made
KnownIds == UsedIds \cup {(Score(MaxTime) + 1) * HexSpace}

\* what add_activity gives its caller when an exception leaves it: no id
Raised == -1

\* what can go wrong in _broadcast_activity apart from a send: nothing,
\* broadcast_to_topic raises, or the part of ConnectionManager raises
BroadcastFaults == {"none", "topic", "group"}

\* _broadcast_activity, lines 637-696: an exception of broadcast_to_topic
\* leaves the outer try before the part of ConnectionManager is reached; an
\* exception in that part leaves the inner try
BroadcastAll(a, fault) ==
    LET W == IF fault = "topic" THEN Topics ELSE BroadcastActivityToTopic(Topics, a)
        R == IF fault = "none" THEN BroadcastActivity(After(W), a) ELSE After(W)
    IN  [W |-> W, R |-> R]

\* _broadcast_activity with no except clause
BroadcastRaises_Uncaught(fault) == fault # "none"

\* whether an exception leaves _broadcast_activity: both except clauses
\* (lines 689-693 and 695-696) log and go on
BroadcastRaises(fault) ==
    CASE fault = "topic" -> FALSE
      [] fault = "group" -> FALSE
      [] OTHER -> FALSE

\* add_activity: the exceptions of Redis are caught and logged below it; an
\* exception that leaves _broadcast_activity would be logged and raised
\* again (lines 196-198), before the statistics and the return of the id.
\* dt: the ticks the clock has advanced since the last call that read it.
AddActivityWith(inp, dt, hex, fault) ==
    /\ now' = now + dt
    /\ LET a == NewActivity(inp, now + dt, hex)
           c == CacheInsert(recent_activities, activity_cache, a)
           raised == BroadcastRaises(fault)
       IN  /\ a.id \notin UsedIds
           /\ recent_activities' = c.recent
           /\ activity_cache' = c.cache
           /\ redis_data' = SavePayload(redis_data, a, redis_up)
           /\ sorted_global' = AddToSortedList(sorted_global, a, redis_up)
           /\ LET B == BroadcastAll(a, fault)
              IN  /\ SetTopics(B.W)
                  /\ SetRegistry(B.R)
           /\ stats_global' = IF raised THEN stats_global
                              ELSE UpdateActivityStats(stats_global, a, redis_up)
           /\ appended' = Append(appended,
                                 [id |-> a.id, input |-> inp, timestamp |-> now + dt,
                                  fault |-> fault])
           /\ indexed_ever' = IF redis_up THEN indexed_ever \cup {a.id}
                              ELSE indexed_ever
           /\ ret' = [op |-> "add_activity",
                      value |-> IF raised THEN Raised ELSE a.id, user |-> None]
    /\ UNCHANGED <<redis_up, bookmark_keys, ops, calls, joined, handlers, wanted>>
    /\ UNCHANGED concVars
    /\ UNCHANGED configVars

\* add_activity when nothing but a send can fail
AddActivity(inp, dt, hex) == AddActivityWith(inp, dt, hex, "none")

\* what the store holds for (user, id), and what get_bookmarked_activities
\* would list for the user
OverlayOf(keys, cache, data, up, user, id) ==
    [stored |-> <<user, id>> \in keys,
     listed |-> LET r == GetBookmarkedActivities(keys, cache, data, up, user,
                                                 Cardinality(keys), 0).result
                IN  {r[k].id : k \in 1..Len(r)}]

OverlayNow(user, id) ==
    OverlayOf(bookmark_keys, activity_cache, redis_data, redis_up, user, id)

\* one entry of calls: before and after are OverlayOf around the call
Called(op, id, user, value, before, after) ==
    [op |-> op, id |-> id, user |-> user, value |-> value, up |-> redis_up,
     before |-> before, after |-> after]

\* calls is kept in the behaviours that start with an entry (SpecBookmarks);
\* in the others it stays empty
Record(call) == IF calls = <<>> THEN calls ELSE Append(calls, call)

\* activity.read = True, with the flag flipped instead
SetRead_Flipped(a) == [a EXCEPT !.read = ~@]

\* activity.read = True
SetRead(a) == [a EXCEPT !.read = TRUE]

\* mark_activity_read: user_id is not used
MarkActivityRead(id, user) ==
    /\ ops < MaxOps
    /\ ops' = ops + 1
    /\ LET got == GetActivityById(id)
       IN  IF got = <<>>
           THEN /\ ret' = [op |-> "mark_activity_read", value |-> FALSE,
                               user |-> user]
                /\ UNCHANGED <<activity_cache, redis_data, sorted_global,
                               indexed_ever>>
           ELSE LET a == SetRead(got[1])
                IN  /\ activity_cache' = MapPut(activity_cache, id, a)
                    /\ redis_data' = SavePayload(redis_data, a, redis_up)
                    /\ sorted_global' = AddToSortedList(sorted_global, a, redis_up)
                    /\ indexed_ever' = IF redis_up THEN indexed_ever \cup {id}
                                       ELSE indexed_ever
                    /\ ret' = [op |-> "mark_activity_read", value |-> TRUE,
                               user |-> user]
    /\ UNCHANGED <<now, redis_up, recent_activities, bookmark_keys, stats_global,
                   appended>>
    /\ UNCHANGED wsVars
    /\ UNCHANGED concVars
    /\ UNCHANGED topicVars
    /\ UNCHANGED configVars
    /\ calls' = Record(Called("mark_activity_read", id, user, ret'.value,
                                     OverlayNow(user, id),
                                     OverlayOf(bookmark_keys', activity_cache',
                                               redis_data', redis_up', user, id)))

\* bookmark_activity, and toggle_bookmark_activity of the route, which reads
\* the state it reports back with get_activity_by_id
BookmarkActivity(id, user) ==
    /\ ops < MaxOps
    /\ ops' = ops + 1
    /\ LET got == GetActivityById(id)
           key == <<user, id>>
           is_bookmarked == redis_up /\ key \in bookmark_keys
       IN  IF got = <<>>
           THEN /\ ret' = [op |-> "bookmark_activity", value |-> <<FALSE, FALSE>>,
                               user |-> user]
                /\ UNCHANGED <<activity_cache, bookmark_keys>>
           ELSE LET a == [got[1] EXCEPT !.bookmarked = ~is_bookmarked]
                IN  /\ bookmark_keys' =
                          IF is_bookmarked THEN bookmark_keys \ {key}
                          ELSE IF redis_up THEN bookmark_keys \cup {key}
                          ELSE bookmark_keys
                    /\ activity_cache' = MapPut(activity_cache, id, a)
                    /\ ret' = [op |-> "bookmark_activity",
                               value |-> <<TRUE, a.bookmarked>>, user |-> user]
    /\ UNCHANGED <<now, redis_up, recent_activities, redis_data, sorted_global,
                   stats_global, appended, indexed_ever>>
    /\ UNCHANGED wsVars
    /\ UNCHANGED concVars
    /\ UNCHANGED topicVars
    /\ UNCHANGED configVars
    /\ calls' = Record(Called("bookmark_activity", id, user, ret'.value,
                                     OverlayNow(user, id),
                                     OverlayOf(bookmark_keys', activity_cache',
                                               redis_data', redis_up', user, id)))

\* get_activities
ListActivities(limit, offset, f) ==
    /\ ops < MaxOps
    /\ ops' = ops + 1
    /\ LET r == GetActivities(limit, offset, f)
       IN  /\ activity_cache' = r.cache
           /\ ret' = [op |-> "get_activities", value |-> r.result,
                      user |-> f.user_id]
    /\ calls' = Record(Called("get_activities", None, f.user_id, ret'.value,
                                     None, None))
    /\ UNCHANGED <<now, redis_up, recent_activities, redis_data, sorted_global,
                   bookmark_keys, stats_global, appended, indexed_ever>>
    /\ UNCHANGED wsVars
    /\ UNCHANGED concVars
    /\ UNCHANGED topicVars
    /\ UNCHANGED configVars

DefaultStatsWindow == 2   \* timedelta(days=7), in ticks

\* how many of acts carry each value of the field: a dict with a key for each
\* value met
CountBy(acts, field(_)) ==
    [v \in {field(acts[k]) : k \in 1..Len(acts)} |->
        Cardinality({k \in 1..Len(acts) : field(acts[k]) = v})]

\* max(sources_count.items(), key=lambda x: x[1])[0]: of the values with the
\* greatest count, the one met first
MostActive(acts, field(_)) ==
    LET c == CountBy(acts, field)
        best == {v \in DOMAIN c : \A w \in DOMAIN c : c[w] <= c[v]}
        first(v) == CHOOSE k \in 1..Len(acts) :
                        field(acts[k]) = v /\ \A j \in 1..(k - 1) : field(acts[j]) # v
    IN  CHOOSE v \in best : \A w \in best : first(v) <= first(w)

TypeValue(a) == ActivityType[a.type]
PriorityValue(a) == ActivityPriority[a.priority]
SourceValue(a) == ActivitySource[a.source]

NoStats ==
    [total_activities |-> 0, activities_by_type |-> EmptyMap,
     activities_by_priority |-> EmptyMap, most_active_source |-> "",
     last_activity |-> None]

\* get_activity_stats over the events get_activities(limit=max_activities,
\* since=since, include_system=True) returns.  activities_24h and
\* avg_impact_score are not modelled.
StatsOf(acts) ==
    IF acts = <<>> THEN NoStats
    ELSE [total_activities |-> Len(acts),
          activities_by_type |-> CountBy(acts, TypeValue),
          activities_by_priority |-> CountBy(acts, PriorityValue),
          most_active_source |-> MostActive(acts, SourceValue),
          last_activity |-> acts[1].timestamp]

StatsSince(since) == IF since = NoSince THEN Max2(0, now - DefaultStatsWindow) ELSE since

GetActivityStats(since) ==
    StatsOf(GetActivities(max_activities, 0,
                          [NoFilter EXCEPT !.since = StatsSince(since)]).result)

\* get_activity_stats
ActivityStats(since) ==
    /\ ops < MaxOps
    /\ ops' = ops + 1
    /\ ret' = [op |-> "get_activity_stats", value |-> GetActivityStats(since),
               user |-> None]
    /\ activity_cache' = GetActivities(max_activities, 0,
                              [NoFilter EXCEPT !.since = StatsSince(since)]).cache
    /\ UNCHANGED <<now, redis_up, recent_activities, redis_data, sorted_global,
                   bookmark_keys, stats_global, appended, indexed_ever, calls>>
    /\ UNCHANGED wsVars
    /\ UNCHANGED concVars
    /\ UNCHANGED topicVars
    /\ UNCHANGED configVars

\* get_bookmarked_activities
ListBookmarks(user, limit, offset) ==
    /\ ops < MaxOps
    /\ ops' = ops + 1
    /\ LET r == GetBookmarkedActivities(bookmark_keys, activity_cache, redis_data,
                                        redis_up, user, limit, offset)
       IN  /\ activity_cache' = r.cache
           /\ ret' = [op |-> "get_bookmarked_activities", value |-> r.result,
                      user |-> user]
    /\ calls' = Record(Called("get_bookmarked_activities", None, user,
                                     ret'.value, None, None))
    /\ UNCHANGED <<now, redis_up, recent_activities, redis_data, sorted_global,
                   bookmark_keys, stats_global, appended, indexed_ever>>
    /\ UNCHANGED wsVars
    /\ UNCHANGED concVars
    /\ UNCHANGED topicVars
    /\ UNCHANGED configVars

(***************************************************************************)
(* The environment: Redis going away and coming back, and the retention    *)
(* TTL of a payload running out.                                           *)
(***************************************************************************)
RedisDown ==
    /\ redis_up
    /\ redis_up' = FALSE
    /\ UNCHANGED <<now, recent_activities, activity_cache, redis_data,
                   sorted_global, bookmark_keys, stats_global, appended,
                   indexed_ever, ret, ops, calls>>
    /\ UNCHANGED wsVars
    /\ UNCHANGED concVars
    /\ UNCHANGED topicVars
    /\ UNCHANGED configVars

RedisUp ==
    /\ ~redis_up
    /\ redis_up' = TRUE
    /\ UNCHANGED <<now, recent_activities, activity_cache, redis_data,
                   sorted_global, bookmark_keys, stats_global, appended,
                   indexed_ever, ret, ops, calls>>
    /\ UNCHANGED wsVars
    /\ UNCHANGED concVars
    /\ UNCHANGED topicVars
    /\ UNCHANGED configVars

\* the process starts again: a manager with an empty cache is built, and
\* initialize calls _load_recent_activities, which reads the newest
\* max_activities events of the index (none when Redis is away).  No websocket
\* is open where this step is taken.
Restart ==
    /\ sockets = EmptyMap
    /\ LET acts == LoadActivitiesFromRedis(sorted_global, redis_data, redis_up,
                                           max_activities, NoFilter)
       IN  /\ recent_activities' = [k \in 1..Len(acts) |-> acts[k].id]
           /\ activity_cache' = [id \in {acts[k].id : k \in 1..Len(acts)} |->
                                   acts[CHOOSE k \in 1..Len(acts) : acts[k].id = id]]
    /\ ret' = [op |-> "initialize", value |-> None, user |-> None]
    /\ ops' = ops + 1
    /\ UNCHANGED <<now, redis_up, redis_data, sorted_global, bookmark_keys,
                   stats_global, appended, indexed_ever, calls>>
    /\ UNCHANGED wsVars
    /\ UNCHANGED concVars
    /\ UNCHANGED topicVars
    /\ UNCHANGED configVars

\* the key activity:data:<id> expires (expire=self.activity_ttl)
ExpirePayload(id) ==
    /\ ops < MaxOps
    /\ ops' = ops + 1
    /\ id \in DOMAIN redis_data
    /\ redis_data' = MapDrop(redis_data, {id})
    /\ calls' = Record(Called("expire", id, None, None, None, None))
    /\ UNCHANGED <<now, redis_up, recent_activities, activity_cache,
                   sorted_global, bookmark_keys, stats_global, appended,
                   indexed_ever, ret>>
    /\ UNCHANGED wsVars
    /\ UNCHANGED concVars
    /\ UNCHANGED topicVars
    /\ UNCHANGED configVars

(***************************************************************************)
(* The endpoints of /ws, each handler step as one action.                  *)
(***************************************************************************)
MaxSockets == 3        \* websockets opened in one behaviour of SpecWS
MaxBroadcasts == 2     \* add_activity calls in one behaviour of SpecWS
ReplaySockets == 2     \* websockets opened in one behaviour of SpecReplay
ReplayEvents == 6      \* add_activity calls in one behaviour of SpecReplay
ReplayConnIds == {1, 2}

MayOpen(n) == Cardinality(DOMAIN sockets) < n

NewSocket == Cardinality(DOMAIN sockets) + 1

Opened(R, s) ==
    [R EXCEPT !.socks = MapPut(@, s, "CONNECTED"), !.delivered = MapPut(@, s, <<>>)]

\* websocket_dashboard, lines 277-304: connection_id is the client_id the
\* client sent (or a fresh uuid); connect, then the personal welcome
DashboardConnect(c) ==
    /\ LET s == NewSocket
           R1 == Connect(Opened(Registry, s), s, c, DashboardGroups)
       IN  /\ SetRegistry(SendPersonalMessage(R1, ConnectedMessage(c), c))
           /\ joined' = MapPut(joined, s, Len(appended))
           /\ handlers' = handlers \cup {<<c, s, "dashboard">>}
    /\ UNCHANGED feedVars
    /\ UNCHANGED concVars
    /\ UNCHANGED topicVars
    /\ UNCHANGED configVars

\* websocket_admin, lines 346-363
AdminConnect(c) ==
    /\ LET s == NewSocket
           R1 == Connect(Opened(Registry, s), s, c, AdminGroups)
           m == AdminStatsMessage(c, Cardinality(DOMAIN R1.active))
       IN  /\ SetRegistry(SendPersonalMessage(R1, m, c))
           /\ joined' = MapPut(joined, s, Len(appended))
           /\ handlers' = handlers \cup {<<c, s, "admin">>}
    /\ UNCHANGED feedVars
    /\ UNCHANGED concVars
    /\ UNCHANGED topicVars
    /\ UNCHANGED configVars

\* the transport of a websocket breaks: send_text raises from now on
SocketBreaks(s) ==
    /\ s \in DOMAIN sockets
    /\ sockets[s] = "CONNECTED"
    /\ sockets' = [sockets EXCEPT ![s] = "BROKEN"]
    /\ UNCHANGED <<active_connections, connection_groups, connection_metadata,
                   recent_messages, delivered, joined, disconnect_calls, handlers>>
    /\ UNCHANGED feedVars
    /\ UNCHANGED concVars
    /\ UNCHANGED topicVars
    /\ UNCHANGED configVars

\* receive_text raises WebSocketDisconnect (or another error): the handler
\* leaves its loop and its finally calls disconnect(connection_id)
HandlerEnds(h) ==
    /\ h \in handlers
    /\ SetRegistry(Disconnect([Registry EXCEPT !.socks[h[2]] = "DISCONNECTED"], h[1]))
    /\ handlers' = handlers \ {h}
    /\ UNCHANGED joined
    /\ UNCHANGED feedVars
    /\ UNCHANGED concVars
    /\ UNCHANGED topicVars
    /\ UNCHANGED configVars

\* handle_client_message, lines 389-395
PongMessage(c) == Message("SYSTEM_STATUS", "pong", c, 0, "normal", None, None)

\* websocket_dashboard, lines 320-326
ErrorMessage(c) == Message("SYSTEM_STATUS", "error", c, 0, "low", None, None)

ClientFrames == {"ping", "subscribe", "unsubscribe", "other", "malformed"}
FrameGroups == {"dashboard"}
FrameTopics == {"activity_feed"}

\* websocket_dashboard, lines 307-326, one turn of the receive loop: a frame
\* of the client arrives and handle_client_message treats it.  "subscribe"
\* and "unsubscribe" are logged.
ClientMessage(h, type, g) ==
    /\ h \in handlers
    /\ h[3] = "dashboard"
    /\ sockets[h[2]] = "CONNECTED"
    /\ ops' = ops + 1
    /\ CASE type = "ping" ->
              SetRegistry(SendPersonalMessage(Registry, PongMessage(h[1]), h[1]))
         [] type = "malformed" ->
              SetRegistry(SendPersonalMessage(Registry, ErrorMessage(h[1]), h[1]))
         [] OTHER -> SetRegistry(Registry)
    /\ wanted' = IF type \in {"subscribe", "unsubscribe"}
                 THEN MapPut(wanted, <<h[1], g>>, type)
                 ELSE wanted
    /\ ret' = [op |-> "handle_client_message", value |-> None, user |-> None]
    /\ UNCHANGED <<now, redis_up, recent_activities, activity_cache, redis_data,
                   sorted_global, bookmark_keys, stats_global, appended,
                   indexed_ever, calls>>
    /\ UNCHANGED <<joined, handlers>>
    /\ UNCHANGED concVars
    /\ UNCHANGED <<connections, user_connections, subscriptions, cleanup_task>>
    /\ UNCHANGED configVars

(***************************************************************************)
(* The operations of WebSocketManager, called by whoever holds the         *)
(* manager: no endpoint of the repository does.                            *)
(***************************************************************************)
WsmUsers == {"u1", None}

SetWsm(W) ==
    /\ SetTopics(W)
    /\ sockets' = W.socks
    /\ delivered' = W.delivered
    /\ UNCHANGED <<active_connections, connection_groups, connection_metadata,
                   recent_messages, joined, disconnect_calls, handlers>>

FeedUntouched ==
    UNCHANGED <<now, redis_up, recent_activities, activity_cache, redis_data,
                sorted_global, bookmark_keys, stats_global, appended,
                indexed_ever, calls, max_activities,
                max_activities_redis>>

\* connect(websocket, user_id)
WsmConnect(user) ==
    /\ LET s == NewSocket
       IN  /\ SetWsm(WsmConnectOn(Topics, s, WsmId(s), user, now))
           /\ ret' = [op |-> "connect", value |-> WsmId(s), user |-> user]
    /\ UNCHANGED <<ops, wanted>>
    /\ FeedUntouched
    /\ UNCHANGED concVars

\* disconnect(connection_id)
WsmDisconnect(c) ==
    /\ SetWsm(WsmDisconnectOn(Topics, c))
    /\ ops' = ops + 1
    /\ ret' = [op |-> "disconnect", value |-> c, user |-> None]
    /\ UNCHANGED wanted
    /\ FeedUntouched
    /\ UNCHANGED concVars

\* subscribe(connection_id, topic)
WsmSubscribe(c, topic) ==
    /\ LET r == WsmSubscribeOn(Topics, c, topic)
       IN  /\ SetWsm(r.W)
           /\ ret' = [op |-> "subscribe", value |-> <<c, r.ok>>, user |-> None]
           /\ wanted' = IF r.ok THEN MapPut(wanted, <<c, topic>>, "subscribe")
                        ELSE wanted
    /\ ops' = ops + 1
    /\ FeedUntouched
    /\ UNCHANGED concVars

\* handle_message(connection_id, message): a frame of the client
HandleMessage(c, type, topic) ==
    /\ c \in DOMAIN connections
    /\ sockets[connections[c].websocket] = "CONNECTED"
    /\ SetWsm(HandleMessageOn(Topics, c, type, topic, now))
    /\ wanted' = IF type \in {"subscribe", "unsubscribe"}
                 THEN MapPut(wanted, <<c, topic>>, type)
                 ELSE wanted
    /\ ops' = ops + 1
    /\ ret' = [op |-> "handle_message", value |-> None, user |-> None]
    /\ FeedUntouched
    /\ UNCHANGED concVars

\* _cleanup_connections, lines 215-229: one sweep of the heartbeat task,
\* while the task exists
Sweep ==
    /\ cleanup_task
    /\ SetWsm(CleanupOn(Topics, now))
    /\ ret' = [op |-> "_cleanup_connections", value |-> None, user |-> None]
    /\ UNCHANGED wanted
    /\ FeedUntouched
    /\ UNCHANGED concVars

\* a sweep, counted among the calls of a behaviour
CleanupConnections == Sweep /\ ops' = ops + 1

\* time passes
Tick ==
    /\ now' = now + 1
    /\ UNCHANGED <<redis_up, recent_activities, activity_cache, redis_data,
                   sorted_global, bookmark_keys, stats_global, appended,
                   indexed_ever, ret, ops, calls>>
    /\ UNCHANGED wsVars
    /\ UNCHANGED concVars
    /\ UNCHANGED topicVars
    /\ UNCHANGED configVars

(***************************************************************************)
(* Spec: the feed with no websocket client connected.                      *)
(***************************************************************************)
ConnIds == {1, 2, 3}
Procs == {1, 2}

InitFeedState ==
    /\ now = 0
    /\ redis_up = TRUE
    /\ recent_activities = <<>>
    /\ activity_cache = EmptyMap
    /\ redis_data = EmptyMap
    /\ sorted_global = EmptyMap
    /\ bookmark_keys = {}
    /\ stats_global = [counters |-> EmptyMap, last_activity |-> None]
    /\ appended = <<>>
    /\ indexed_ever = {}
    /\ ret = [op |-> "init", value |-> None, user |-> None]
    /\ ops = 0

InitFeed ==
    /\ InitFeedState
    /\ calls = <<>>

InitWS ==
    /\ active_connections = EmptyMap
    /\ connection_groups = [g \in Groups |-> {}]
    /\ connection_metadata = EmptyMap
    /\ recent_messages = <<>>
    /\ sockets = EmptyMap
    /\ delivered = EmptyMap
    /\ joined = EmptyMap
    /\ disconnect_calls = [c \in ConnIds |-> 0]
    /\ handlers = {}

IdleReader == [pc |-> "idle", ids |-> <<>>, limit |-> 0, offset |-> 0]

InitConc ==
    /\ pc = [p \in Procs |-> "idle"]
    /\ local = [p \in Procs |-> <<>>]
    /\ reader = IdleReader

InitTopics ==
    /\ connections = EmptyMap
    /\ user_connections = EmptyMap
    /\ subscriptions = EmptyMap
    /\ wanted = EmptyMap
    /\ cleanup_task = FALSE

InitConfig ==
    /\ max_activities = CacheSize
    /\ max_activities_redis = IndexSize

Init == InitFeed /\ InitWS /\ InitConc /\ InitTopics /\ InitConfig

\* what the one producer of Spec, SpecWS, SpecReplay and SpecConc appends
ProducerInput == CHOOSE inp \in Inputs : inp.type = "INSIGHT_DISCOVERED"

ListFilters == {[NoFilter EXCEPT !.user_id = u] : u \in Users \cup {None}}

\* the bounds on add_activity: MaxEvents calls, up to the tick MaxTime
MayAdd(dt) == Len(appended) < MaxEvents /\ now + dt <= MaxTime

Next ==
    \/ \E hex \in 0..(HexSpace - 1) :
            MayAdd(1) /\ AddActivity(ProducerInput, 1, hex)
    \/ \E id \in KnownIds : MarkActivityRead(id, "u1")
    \/ \E limit \in 1..2, offset \in 0..1 : ListActivities(limit, offset, NoFilter)
    \/ \E id \in KnownIds : ExpirePayload(id)
    \/ RedisDown
    \/ RedisUp

vars == <<now, redis_up, recent_activities, activity_cache, redis_data,
          sorted_global, bookmark_keys, stats_global, appended, indexed_ever,
          ret, ops, calls, active_connections, connection_groups,
          connection_metadata, recent_messages, sockets, delivered, joined,
          disconnect_calls, handlers, pc, local, reader, connections,
          user_connections, subscriptions, wanted, cleanup_task, max_activities,
          max_activities_redis>>

Spec == Init /\ [][Next]_vars

(***************************************************************************)
(* SpecOverlay: the feed with two users reading, marking and bookmarking.  *)
(***************************************************************************)
NextOverlay ==
    \/ \E inp \in Inputs, hex \in 0..(HexSpace - 1) :
            MayAdd(1) /\ AddActivity(inp, 1, hex)
    \/ \E id \in KnownIds, u \in Users : MarkActivityRead(id, u)
    \/ \E id \in KnownIds, u \in Users : BookmarkActivity(id, u)
    \/ \E limit \in 1..2, offset \in 0..1, f \in ListFilters :
            ListActivities(limit, offset, f)
    \/ \E id \in KnownIds : ExpirePayload(id)
    \/ RedisDown
    \/ RedisUp

SpecOverlay == Init /\ [][NextOverlay]_vars

(***************************************************************************)
(* SpecBookmarks: two users whose ids share a prefix mark, bookmark and    *)
(* list their bookmarks.                                                   *)
(***************************************************************************)
BookmarkUsers == {"u1", "u1:x"}

NextBookmarks ==
    \/ \E hex \in 0..(HexSpace - 1) :
            MayAdd(1) /\ AddActivity(ProducerInput, 1, hex)
    \/ \E id \in KnownIds, u \in BookmarkUsers : MarkActivityRead(id, u)
    \/ \E id \in KnownIds, u \in BookmarkUsers : BookmarkActivity(id, u)
    \/ \E u \in BookmarkUsers, limit \in 1..2, offset \in 0..1 :
            ListBookmarks(u, limit, offset)
    \/ \E id \in KnownIds : ExpirePayload(id)
    \/ RedisDown
    \/ RedisUp

InitBookmarks ==
    /\ InitFeedState /\ InitWS /\ InitConc /\ InitTopics /\ InitConfig
    /\ calls = <<[op |-> "init", id |-> None, user |-> None, value |-> None,
                  up |-> TRUE, before |-> None, after |-> None]>>

SpecBookmarks == InitBookmarks /\ [][NextBookmarks]_vars

(***************************************************************************)
(* SpecWS: clients of /ws/dashboard and /ws/admin come and go while one    *)
(* producer appends, one event a millisecond.                              *)
(***************************************************************************)
NextWS ==
    \/ /\ Len(appended) < MaxBroadcasts
       /\ AddActivity(ProducerInput, TicksPerMs, 0)
    \/ \E c \in ConnIds : MayOpen(MaxSockets) /\ DashboardConnect(c)
    \/ \E c \in ConnIds : MayOpen(MaxSockets) /\ AdminConnect(c)
    \/ \E s \in DOMAIN sockets : SocketBreaks(s)
    \/ \E h \in handlers : HandlerEnds(h)

SpecWS == Init /\ [][NextWS]_vars

(***************************************************************************)
(* SpecReplay: the same endpoints with fewer clients and a longer feed, so *)
(* that a client can join after five events and before the sixth.          *)
(***************************************************************************)
NextReplay ==
    \/ /\ Len(appended) < ReplayEvents
       /\ AddActivity(ProducerInput, TicksPerMs, 0)
    \/ \E c \in ReplayConnIds : MayOpen(ReplaySockets) /\ DashboardConnect(c)
    \/ \E c \in ReplayConnIds : MayOpen(ReplaySockets) /\ AdminConnect(c)
    \/ \E s \in DOMAIN sockets : SocketBreaks(s)
    \/ \E h \in handlers : HandlerEnds(h)

SpecReplay == Init /\ [][NextReplay]_vars

(***************************************************************************)
(* add_activity and get_activities, one step for each stretch of code      *)
(* between two awaits.  await connection_manager.broadcast_to_group is one *)
(* step, and so are the gets of _load_activities_from_redis.               *)
(***************************************************************************)
ConcEvents == 2     \* add_activity calls in one behaviour of SpecConc
ConcSockets == 1    \* websockets opened in one behaviour of SpecConc

Goto(p, label) == pc' = [pc EXCEPT ![p] = label]

\* lines 149-175, up to the first await
AddCreate(p, inp, dt, hex) ==
    /\ pc[p] = "idle"
    /\ now' = now + dt
    /\ LET a == NewActivity(inp, now + dt, hex)
           c == CacheInsert(recent_activities, activity_cache, a)
       IN  /\ a.id \notin UsedIds
           /\ recent_activities' = c.recent
           /\ activity_cache' = c.cache
           /\ appended' = Append(appended,
                                 [id |-> a.id, input |-> inp, timestamp |-> now + dt,
                                  fault |-> "none"])
           /\ local' = [local EXCEPT ![p] = <<a>>]
    /\ Goto(p, "set")
    /\ UNCHANGED <<redis_up, redis_data, sorted_global, bookmark_keys, stats_global,
                   indexed_ever, ret, ops, calls, reader>>
    /\ UNCHANGED wsVars
    /\ UNCHANGED topicVars
    /\ UNCHANGED configVars

\* _save_activity_to_redis, lines 534-541: await self.redis.set
AddSavePayload(p) ==
    /\ pc[p] = "set"
    /\ redis_data' = SavePayload(redis_data, local[p][1], redis_up)
    /\ Goto(p, "zadd")
    /\ UNCHANGED <<now, redis_up, recent_activities, activity_cache, sorted_global,
                   bookmark_keys, stats_global, appended, indexed_ever, ret, ops, calls,
                   local, reader>>
    /\ UNCHANGED wsVars
    /\ UNCHANGED topicVars
    /\ UNCHANGED configVars

\* _add_to_sorted_list, lines 553-557: await zadd; its exception ends
\* _add_to_sorted_list and _save_activity_to_redis
AddZAdd(p) ==
    /\ pc[p] = "zadd"
    /\ LET a == local[p][1]
       IN  IF redis_up
           THEN /\ sorted_global' = ZAdd(sorted_global, a.id, Score(a.timestamp))
                /\ indexed_ever' = indexed_ever \cup {a.id}
                /\ Goto(p, "zremrangebyrank")
           ELSE /\ UNCHANGED <<sorted_global, indexed_ever>>
                /\ Goto(p, "broadcast_dashboard")
    /\ UNCHANGED <<now, redis_up, recent_activities, activity_cache, redis_data,
                   bookmark_keys, stats_global, appended, ret, ops, calls, local, reader>>
    /\ UNCHANGED wsVars
    /\ UNCHANGED topicVars
    /\ UNCHANGED configVars

\* _add_to_sorted_list, line 560: await zremrangebyrank
AddZRemRangeByRank(p) ==
    /\ pc[p] = "zremrangebyrank"
    /\ sorted_global' = IF redis_up
                        THEN ZRemRangeByRank(sorted_global,
                                             0, -(max_activities_redis + 1))
                        ELSE sorted_global
    /\ Goto(p, "broadcast_dashboard")
    /\ UNCHANGED <<now, redis_up, recent_activities, activity_cache, redis_data,
                   bookmark_keys, stats_global, appended, indexed_ever, ret, ops, calls,
                   local, reader>>
    /\ UNCHANGED wsVars
    /\ UNCHANGED topicVars
    /\ UNCHANGED configVars

\* _broadcast_activity, line 686
AddBroadcastDashboard(p) ==
    /\ pc[p] = "broadcast_dashboard"
    /\ SetRegistry(BroadcastToGroup(Registry, "dashboard",
                                    ActivityMessage(local[p][1]), {}))
    /\ Goto(p, "broadcast_notifications")
    /\ UNCHANGED <<joined, handlers, local, reader>>
    /\ UNCHANGED feedVars
    /\ UNCHANGED topicVars
    /\ UNCHANGED configVars

\* _broadcast_activity, line 687
AddBroadcastNotifications(p) ==
    /\ pc[p] = "broadcast_notifications"
    /\ SetRegistry(BroadcastToGroup(Registry, "notifications",
                                    ActivityMessage(local[p][1]), {}))
    /\ Goto(p, "update_stats")
    /\ UNCHANGED <<joined, handlers, local, reader>>
    /\ UNCHANGED feedVars
    /\ UNCHANGED topicVars
    /\ UNCHANGED configVars

\* _update_activity_stats and the return of add_activity, lines 184-194
AddReturn(p) ==
    /\ pc[p] = "update_stats"
    /\ LET a == local[p][1]
       IN  /\ stats_global' = UpdateActivityStats(stats_global, a, redis_up)
           /\ ret' = [op |-> "add_activity", value |-> a.id, user |-> None]
    /\ local' = [local EXCEPT ![p] = <<>>]
    /\ Goto(p, "idle")
    /\ UNCHANGED <<now, redis_up, recent_activities, activity_cache, redis_data,
                   sorted_global, bookmark_keys, appended, indexed_ever, ops, calls, reader>>
    /\ UNCHANGED wsVars
    /\ UNCHANGED topicVars
    /\ UNCHANGED configVars

\* get_activities without user_id: the cache path has no await; the Redis
\* path stops at zrevrange, whose exception makes it return []
ListStart(limit, offset) ==
    /\ ops < MaxOps
    /\ ops' = ops + 1
    /\ reader.pc = "idle"
    /\ calls' = Record(Called("get_activities", None, None, None, None, None))
    /\ IF (offset = 0 /\ limit <= Len(recent_activities)) \/ ~redis_up
       THEN /\ ret' = [op |-> "get_activities",
                       value |-> GetActivities(limit, offset, NoFilter).result,
                       user |-> None]
            /\ UNCHANGED reader
       ELSE /\ reader' = [pc |-> "get", limit |-> limit, offset |-> offset,
                          ids |-> ZRevRange(sorted_global, 0, (limit + offset) * 2)]
            /\ UNCHANGED ret
    /\ UNCHANGED <<now, redis_up, recent_activities, activity_cache, redis_data,
                   sorted_global, bookmark_keys, stats_global, appended,
                   indexed_ever, pc, local>>
    /\ UNCHANGED wsVars
    /\ UNCHANGED topicVars
    /\ UNCHANGED configVars

\* the gets of _load_activities_from_redis, the filter and the two slices
ListReturn ==
    /\ reader.pc = "get"
    /\ LET acts == LoadPayloads(reader.ids, redis_data, redis_up,
                                reader.limit + reader.offset, NoFilter)
       IN  ret' = [op |-> "get_activities",
                   value |-> Slice(acts, reader.offset, reader.offset + reader.limit),
                   user |-> None]
    /\ reader' = IdleReader
    /\ UNCHANGED <<now, redis_up, recent_activities, activity_cache, redis_data,
                   sorted_global, bookmark_keys, stats_global, appended,
                   indexed_ever, ops, calls, pc, local>>
    /\ UNCHANGED wsVars
    /\ UNCHANGED topicVars
    /\ UNCHANGED configVars

\* a task stands between two commands it sends to Redis
Storing == \E p \in Procs : pc[p] \in {"set", "zadd", "zremrangebyrank"}

NextConc ==
    \/ \E p \in Procs :
            /\ Len(appended) < ConcEvents
            /\ AddCreate(p, ProducerInput, 1, p - 1)
    \/ \E p \in Procs : AddSavePayload(p)
    \/ \E p \in Procs : AddZAdd(p)
    \/ \E p \in Procs : AddZRemRangeByRank(p)
    \/ \E p \in Procs : AddBroadcastDashboard(p)
    \/ \E p \in Procs : AddBroadcastNotifications(p)
    \/ \E p \in Procs : AddReturn(p)
    \/ \E offset \in 0..1 : ListStart(2, offset)
    \/ ListReturn
    \/ MayOpen(ConcSockets) /\ DashboardConnect(1)
    \/ Storing /\ RedisDown
    \/ RedisUp

SpecConc == Init /\ [][NextConc]_vars

(***************************************************************************)
(* SpecFilter: events of both kinds are appended and the feed is listed    *)
(* under filters over every dimension.                                     *)
(***************************************************************************)
SinceSpace == {NoSince, 2, MaxTime + 1}

FilterSpace ==
    {[types |-> ty, priorities |-> pr, sources |-> so, user_id |-> u,
      tech_areas |-> te, since |-> si, include_system |-> sy] :
        ty \in {{}, {"INSIGHT_DISCOVERED"}, {"INSIGHT_DISCOVERED", "CRITICAL_ALERT"}},
        pr \in {{}, {"HIGH"}},
        so \in {{}, {"USER"}},
        u \in {None, "u2"},
        te \in {{}, {"ai", "web"}},
        si \in SinceSpace,
        sy \in BOOLEAN}

\* the filters get_activities is called with; the claims range over FilterSpace
CalledFilters ==
    {f \in FilterSpace : f.priorities = {} /\ f.sources = {} /\ f.user_id = None}

NextFilter ==
    \/ \E inp \in Inputs, hex \in 0..(HexSpace - 1) :
            MayAdd(1) /\ AddActivity(inp, 1, hex)
    \/ \E limit \in 1..2, offset \in 0..1, f \in CalledFilters :
            ListActivities(limit, offset, f)
    \/ \E since \in SinceSpace : ActivityStats(since)
    \/ \E id \in KnownIds : ExpirePayload(id)
    \/ RedisDown
    \/ RedisUp

SpecFilter == Init /\ [][NextFilter]_vars

(***************************************************************************)
(* SpecCache: the feed with a cache of more than one event, and the        *)
(* process starting again.                                                 *)
(***************************************************************************)
CacheEvents == 4    \* add_activity calls in one behaviour of SpecCache
CacheRestarts == 2  \* restarts in one behaviour of SpecCache

InitCache ==
    /\ InitFeed /\ InitWS /\ InitConc /\ InitTopics
    /\ max_activities = WideCacheSize
    /\ max_activities_redis = WideIndexSize

NextCache ==
    \/ \E hex \in 0..(HexSpace - 1) :
            /\ Len(appended) < CacheEvents
            /\ AddActivity(ProducerInput, 1, hex)
    \/ ops < CacheRestarts /\ Restart
    \/ RedisDown
    \/ RedisUp

SpecCache == InitCache /\ [][NextCache]_vars

(***************************************************************************)
(* SpecRegistry: the two registries side by side.  Dashboard and admin     *)
(* clients join ConnectionManager, other clients join WebSocketManager,    *)
(* clients send control frames, and the feed broadcasts to both.           *)
(***************************************************************************)
RegistrySockets == 2
RegistryEvents == 1
RegistryOps == 2
RegistryConnIds == {1, 2}
WsmIds == {WsmId(s) : s \in 1..RegistrySockets}

NextRegistry ==
    \/ /\ Len(appended) < RegistryEvents
       /\ now + TicksPerMs <= MaxTime
       /\ AddActivity(ProducerInput, TicksPerMs, 0)
    \/ \E c \in RegistryConnIds : MayOpen(RegistrySockets) /\ DashboardConnect(c)
    \/ \E c \in RegistryConnIds : MayOpen(RegistrySockets) /\ AdminConnect(c)
    \/ \E h \in handlers, type \in ClientFrames, g \in FrameGroups :
            ops < RegistryOps /\ ClientMessage(h, type, g)
    \/ \E s \in DOMAIN sockets : SocketBreaks(s)
    \/ \E h \in handlers : HandlerEnds(h)
    \/ \E user \in WsmUsers : MayOpen(RegistrySockets) /\ WsmConnect(user)
    \/ \E c \in WsmIds, type \in ClientFrames \ {"malformed"}, topic \in FrameTopics :
            ops < RegistryOps /\ HandleMessage(c, type, topic)
    \/ \E c \in WsmIds, topic \in FrameTopics :
            ops < RegistryOps /\ WsmSubscribe(c, topic)
    \/ \E c \in WsmIds : ops < RegistryOps /\ WsmDisconnect(c)
    \/ ops < RegistryOps /\ CleanupConnections
    \/ now < MaxTime /\ Tick

SpecRegistry == Init /\ [][NextRegistry]_vars

(***************************************************************************)
(* SpecFanout: _broadcast_activity step by step.  Each await of send_text  *)
(* is a step of its own, and a websocket whose peer has stopped reading    *)
(* is "STALLED": the await of send_text on it does not return.             *)
(***************************************************************************)
FanoutSockets == 2  \* websockets opened in one behaviour of SpecFanout
FanoutEvents == 1   \* add_activity calls in one behaviour of SpecFanout
FanoutOps == 2      \* frames and disconnect calls in one behaviour of SpecFanout
FanoutConnIds == {1, 2}
FanoutWsmIds == {WsmId(s) : s \in 1..FanoutSockets}
Broadcasters == {1}   \* the tasks of add_activity that run in SpecFanout

\* the peer of a websocket stops reading: send_text waits for the transport
SocketStalls(s) ==
    /\ s \in DOMAIN sockets
    /\ sockets[s] = "CONNECTED"
    /\ sockets' = [sockets EXCEPT ![s] = "STALLED"]
    /\ UNCHANGED <<active_connections, connection_groups, connection_metadata,
                   recent_messages, delivered, joined, disconnect_calls, handlers>>
    /\ UNCHANGED feedVars
    /\ UNCHANGED concVars
    /\ UNCHANGED topicVars
    /\ UNCHANGED configVars

\* list(a set): its members in an order the program does not choose
Orders(S) == {q \in [1..Cardinality(S) -> S] : Range(q) = S}

\* the task of add_activity keeps, in local[p]: the activity, the snapshot
\* of broadcast_to_topic still to be walked, and the connections whose task
\* of asyncio.gather has not ended
Activity(p) == local[p][1]
Queue(p) == local[p][2]
Pending(p) == local[p][3]

\* add_activity, lines 149-178, and _broadcast_activity up to the loop of
\* broadcast_to_topic (websocket_manager.py:150-155): the snapshot
\* list(self.subscriptions[topic])
FanoutCreate(p, inp, dt, hex) ==
    /\ pc[p] = "idle"
    /\ now' = now + dt
    /\ LET a == NewActivity(inp, now + dt, hex)
           c == CacheInsert(recent_activities, activity_cache, a)
           subscribers == IF "activity_feed" \in DOMAIN subscriptions
                          THEN subscriptions["activity_feed"] ELSE {}
       IN  /\ a.id \notin UsedIds
           /\ recent_activities' = c.recent
           /\ activity_cache' = c.cache
           /\ redis_data' = SavePayload(redis_data, a, redis_up)
           /\ sorted_global' = AddToSortedList(sorted_global, a, redis_up)
           /\ appended' = Append(appended,
                                 [id |-> a.id, input |-> inp, timestamp |-> now + dt,
                                  fault |-> "none"])
           /\ indexed_ever' = IF redis_up THEN indexed_ever \cup {a.id}
                              ELSE indexed_ever
           /\ \E q \in Orders(subscribers) :
                    local' = [local EXCEPT ![p] = <<a, q, {}>>]
    /\ Goto(p, "broadcast_to_topic")
    /\ UNCHANGED <<redis_up, bookmark_keys, stats_global, ret, ops, calls, reader>>
    /\ UNCHANGED wsVars
    /\ UNCHANGED topicVars
    /\ UNCHANGED configVars

\* broadcast_to_topic, lines 157-159: await self._send_to_connection(...) for
\* the next id of the snapshot; the loop goes on when that await returns
TopicSend(p) ==
    /\ pc[p] = "broadcast_to_topic"
    /\ Queue(p) # <<>>
    /\ LET c == Head(Queue(p))
       IN  /\ c \in DOMAIN connections =>
                 sockets[connections[c].websocket] # "STALLED"
           /\ SetWsm(SendToConnection(Topics, c, NewActivityMessage(Activity(p))))
           /\ local' = [local EXCEPT ![p][2] = Tail(@)]
    /\ UNCHANGED <<ret, ops, wanted, pc, reader>>
    /\ FeedUntouched

\* broadcast_to_topic returns, line 161
TopicReturn(p) ==
    /\ pc[p] = "broadcast_to_topic"
    /\ Queue(p) = <<>>
    /\ Goto(p, "broadcast_dashboard")
    /\ UNCHANGED <<local, reader>>
    /\ UNCHANGED feedVars
    /\ UNCHANGED wsVars
    /\ UNCHANGED topicVars
    /\ UNCHANGED configVars

\* where _broadcast_activity goes on after a group
AfterGroup(group) ==
    IF group = "dashboard" THEN "broadcast_notifications" ELSE "update_stats"

\* broadcast_to_group, lines 186-205, up to asyncio.gather: no member, no
\* history and no task; else the message joins the history and each member
\* gets a task
GroupStart(p, group) ==
    /\ pc[p] = "broadcast_" \o group
    /\ LET targets == connection_groups[group]
       IN  IF targets = {}
           THEN /\ Goto(p, AfterGroup(group))
                /\ UNCHANGED <<recent_messages, local>>
           ELSE /\ Goto(p, "gather_" \o group)
                /\ recent_messages' = AddToHistory(recent_messages,
                                                   ActivityMessage(Activity(p)))
                /\ local' = [local EXCEPT ![p][3] = targets]
    /\ UNCHANGED <<active_connections, connection_groups, connection_metadata,
                   sockets, delivered, joined, disconnect_calls, handlers, reader>>
    /\ UNCHANGED feedVars
    /\ UNCHANGED topicVars
    /\ UNCHANGED configVars

\* one task of asyncio.gather: send_personal_message(message, connection_id),
\* taken as one step at the return of its send_text
GroupSend(p, group, c) ==
    /\ pc[p] = "gather_" \o group
    /\ c \in Pending(p)
    /\ c \in DOMAIN active_connections => sockets[active_connections[c]] # "STALLED"
    /\ SetRegistry(SendPersonalMessage(Registry, ActivityMessage(Activity(p)), c))
    /\ local' = [local EXCEPT ![p][3] = @ \ {c}]
    /\ UNCHANGED <<joined, handlers, pc, reader>>
    /\ UNCHANGED feedVars
    /\ UNCHANGED topicVars
    /\ UNCHANGED configVars

\* asyncio.gather returns when every task has ended, line 207
GatherReturn(p, group) ==
    /\ pc[p] = "gather_" \o group
    /\ Pending(p) = {}
    /\ Goto(p, AfterGroup(group))
    /\ UNCHANGED <<local, reader>>
    /\ UNCHANGED feedVars
    /\ UNCHANGED wsVars
    /\ UNCHANGED topicVars
    /\ UNCHANGED configVars

FeedGroups == {"dashboard", "notifications"}

NextFanout ==
    \/ \E p \in Broadcasters :
            /\ Len(appended) < FanoutEvents
            /\ FanoutCreate(p, ProducerInput, 1, 0)
    \/ \E p \in Broadcasters : TopicSend(p)
    \/ \E p \in Broadcasters : TopicReturn(p)
    \/ \E p \in Broadcasters, group \in FeedGroups : GroupStart(p, group)
    \/ \E p \in Broadcasters, group \in FeedGroups, c \in FanoutConnIds : GroupSend(p, group, c)
    \/ \E p \in Broadcasters, group \in FeedGroups : GatherReturn(p, group)
    \/ \E p \in Broadcasters : AddReturn(p)
    \/ \E c \in FanoutConnIds : MayOpen(FanoutSockets) /\ DashboardConnect(c)
    \/ MayOpen(FanoutSockets) /\ WsmConnect(None)
    \/ \E c \in FanoutWsmIds :
            ops < FanoutOps /\ HandleMessage(c, "subscribe", "activity_feed")
    \/ \E s \in DOMAIN sockets : SocketStalls(s)
    \/ \E s \in DOMAIN sockets : SocketBreaks(s)
    \/ \E h \in handlers : HandlerEnds(h)
    \/ \E c \in FanoutWsmIds : ops < FanoutOps /\ WsmDisconnect(c)

SpecFanout == Init /\ [][NextFanout]_vars

\* the event loop runs every task that can go on: a step of the fan-out
\* that stays possible is taken
FanoutFairness ==
    /\ \A p \in Broadcasters : WF_vars(TopicSend(p))
    /\ \A p \in Broadcasters : WF_vars(TopicReturn(p))
    /\ \A p \in Broadcasters, group \in FeedGroups : WF_vars(GroupStart(p, group))
    /\ \A p \in Broadcasters, group \in FeedGroups, c \in FanoutConnIds :
            WF_vars(GroupSend(p, group, c))
    /\ \A p \in Broadcasters, group \in FeedGroups : WF_vars(GatherReturn(p, group))
    /\ \A p \in Broadcasters : WF_vars(AddReturn(p))

SpecFanoutFair == SpecFanout /\ FanoutFairness

(***************************************************************************)
(* SpecFaults: add_activity while transports break, Redis comes and goes   *)
(* and the broadcasters raise.                                             *)
(***************************************************************************)
FaultSockets == 2   \* websockets opened in one behaviour of SpecFaults
FaultEvents == 2    \* add_activity calls in one behaviour of SpecFaults
FaultOps == 1       \* frames in one behaviour of SpecFaults
FaultConnIds == {1, 2}
FaultWsmIds == {WsmId(s) : s \in 1..FaultSockets}

NextFaults ==
    \/ \E fault \in BroadcastFaults :
            /\ Len(appended) < FaultEvents
            /\ AddActivityWith(ProducerInput, 1, 0, fault)
    \/ \E c \in FaultConnIds : MayOpen(FaultSockets) /\ DashboardConnect(c)
    \/ MayOpen(FaultSockets) /\ WsmConnect(None)
    \/ \E c \in FaultWsmIds :
            ops < FaultOps /\ HandleMessage(c, "subscribe", "activity_feed")
    \/ \E s \in DOMAIN sockets : SocketBreaks(s)
    \/ RedisDown
    \/ RedisUp

SpecFaults == Init /\ [][NextFaults]_vars

(***************************************************************************)
(* SpecHeartbeat: WebSocketManager with its heartbeat task, the clock, and *)
(* shutdown() step by step, each await a step of its own.                  *)
(***************************************************************************)
HeartbeatSockets == 2   \* websockets opened in one behaviour of SpecHeartbeat
HeartbeatOps == 1       \* frames in one behaviour of SpecHeartbeat
HeartbeatWsmIds == {WsmId(s) : s \in 1..HeartbeatSockets}
ShutdownTasks == {2}    \* the task that runs shutdown()

ShutdownReturn == [op |-> "shutdown", value |-> None, user |-> None]

\* shutdown, lines 248-257: the heartbeat task is cancelled and forgotten,
\* and broadcast sends server_shutdown to every connection
ShutdownBegin(p) ==
    /\ pc[p] = "idle"
    /\ SetWsm(SendToEach([Topics EXCEPT !.task = FALSE],
                         TopicMessage("server_shutdown", 0, 0), DOMAIN connections))
    /\ Goto(p, "shutdown_broadcast")
    /\ ret' = ShutdownReturn
    /\ UNCHANGED <<ops, wanted, local, reader>>
    /\ FeedUntouched

\* shutdown, line 259: broadcast has returned;
\* connection_ids = list(self.connections.keys())
ShutdownSnapshot(p) ==
    /\ pc[p] = "shutdown_broadcast"
    /\ \E q \in Orders(DOMAIN connections) : local' = [local EXCEPT ![p] = <<q>>]
    /\ Goto(p, "shutdown_close")
    /\ UNCHANGED <<now, redis_up, recent_activities, activity_cache, redis_data,
                   sorted_global, bookmark_keys, stats_global, appended,
                   indexed_ever, ret, ops, calls, reader>>
    /\ UNCHANGED wsVars
    /\ UNCHANGED topicVars
    /\ UNCHANGED configVars

\* shutdown, lines 260-267: the next connection of the snapshot is closed
\* and disconnected
ShutdownClose(p) ==
    /\ pc[p] = "shutdown_close"
    /\ local[p][1] # <<>>
    /\ LET c == Head(local[p][1])
           W == IF c \in DOMAIN connections
                THEN [Topics EXCEPT !.socks[connections[c].websocket] = "DISCONNECTED"]
                ELSE Topics
       IN  SetWsm(WsmDisconnectOn(W, c))
    /\ local' = [local EXCEPT ![p] = <<Tail(@[1])>>]
    /\ ret' = ShutdownReturn
    /\ UNCHANGED <<ops, wanted, pc, reader>>
    /\ FeedUntouched

\* shutdown returns, line 269
ShutdownEnd(p) ==
    /\ pc[p] = "shutdown_close"
    /\ local[p][1] = <<>>
    /\ local' = [local EXCEPT ![p] = <<>>]
    /\ Goto(p, "idle")
    /\ UNCHANGED <<now, redis_up, recent_activities, activity_cache, redis_data,
                   sorted_global, bookmark_keys, stats_global, appended,
                   indexed_ever, ret, ops, calls, reader>>
    /\ UNCHANGED wsVars
    /\ UNCHANGED topicVars
    /\ UNCHANGED configVars

\* a sweep of the heartbeat task, not counted
HeartbeatSweep == Sweep /\ UNCHANGED ops

NextHeartbeat ==
    \/ MayOpen(HeartbeatSockets) /\ WsmConnect(None)
    \/ \E c \in HeartbeatWsmIds :
            ops < HeartbeatOps /\ HandleMessage(c, "ping", "activity_feed")
    \/ now < MaxTime /\ Tick
    \/ HeartbeatSweep
    \/ \E p \in ShutdownTasks : ShutdownBegin(p)
    \/ \E p \in ShutdownTasks : ShutdownSnapshot(p)
    \/ \E p \in ShutdownTasks : ShutdownClose(p)
    \/ \E p \in ShutdownTasks : ShutdownEnd(p)

SpecHeartbeat == Init /\ [][NextHeartbeat]_vars

\* the heartbeat task, while it exists, sweeps every ping_interval, and the
\* event loop runs shutdown() on
HeartbeatFairness ==
    /\ WF_vars(HeartbeatSweep)
    /\ \A p \in ShutdownTasks : WF_vars(ShutdownSnapshot(p))
    /\ \A p \in ShutdownTasks : WF_vars(ShutdownClose(p))
    /\ \A p \in ShutdownTasks : WF_vars(ShutdownEnd(p))

SpecHeartbeatFair == SpecHeartbeat /\ HeartbeatFairness

(***************************************************************************)
(* SpecHistory: enough events for recent_messages to reach max_history,    *)
(* and clients that connect before and after.                              *)
(***************************************************************************)
HistoryEvents == 27   \* add_activity calls in one behaviour of SpecHistory
HistorySockets == 2   \* websockets opened in one behaviour of SpecHistory
HistoryConnIds == {1, 2}

NextHistory ==
    \/ /\ Len(appended) < HistoryEvents
       /\ AddActivity(ProducerInput, TicksPerMs, 0)
    \/ \E c \in HistoryConnIds : MayOpen(HistorySockets) /\ DashboardConnect(c)
    \/ \E c \in HistoryConnIds : MayOpen(HistorySockets) /\ AdminConnect(c)

SpecHistory == Init /\ [][NextHistory]_vars

(***************************************************************************)
(* SpecFrames: clients of /ws/dashboard and /ws/admin send frames that are *)
(* not control frames.                                                     *)
(***************************************************************************)
FrameSockets == 2   \* websockets opened in one behaviour of SpecFrames
FrameOps == 2       \* frames in one behaviour of SpecFrames
FrameConnIds == {1, 2}

\* text that is not JSON, JSON that is not an object, and an object whose
\* type (or command, for an admin) is none of the known ones
MalformedFrames == {"invalid_json", "not_object", "unknown_type"}

\* what the receive loop of the endpoint does with the frame: "error" (the
\* except clause of json.JSONDecodeError answers, websocket.py:320-326),
\* "ignored" (handle_client_message and handle_admin_command log an unknown
\* type, lines 411-414 and 451-455) or "raised" (the exception leaves the
\* loop: message.get on a value that is no dict, or json.JSONDecodeError in
\* websocket_admin, whose loop catches WebSocketDisconnect alone)
FrameOutcome(endpoint, kind) ==
    CASE kind = "unknown_type" -> "ignored"
      [] kind = "invalid_json" /\ endpoint = "dashboard" -> "error"
      [] OTHER -> "raised"

\* one turn of the receive loop of websocket_dashboard (lines 307-333) or of
\* websocket_admin (lines 365-382) on such a frame; an exception that leaves
\* the loop is logged and the finally clause disconnects
ControlFrame(h, kind) ==
    /\ h \in handlers
    /\ sockets[h[2]] = "CONNECTED"
    /\ ops' = ops + 1
    /\ LET outcome == FrameOutcome(h[3], kind)
       IN  CASE outcome = "error" ->
                  /\ SetRegistry(SendPersonalMessage(Registry, ErrorMessage(h[1]), h[1]))
                  /\ UNCHANGED handlers
             [] outcome = "ignored" ->
                  /\ SetRegistry(Registry)
                  /\ UNCHANGED handlers
             [] OTHER ->
                  /\ SetRegistry(Disconnect([Registry EXCEPT !.socks[h[2]] = "DISCONNECTED"],
                                            h[1]))
                  /\ handlers' = handlers \ {h}
    /\ ret' = [op |-> "control_frame", value |-> h[1], user |-> None]
    /\ UNCHANGED <<now, redis_up, recent_activities, activity_cache, redis_data,
                   sorted_global, bookmark_keys, stats_global, appended,
                   indexed_ever, calls, joined>>
    /\ UNCHANGED concVars
    /\ UNCHANGED topicVars
    /\ UNCHANGED configVars

NextFrames ==
    \/ \E c \in FrameConnIds : MayOpen(FrameSockets) /\ DashboardConnect(c)
    \/ \E c \in FrameConnIds : MayOpen(FrameSockets) /\ AdminConnect(c)
    \/ \E h \in handlers, kind \in MalformedFrames :
            ops < FrameOps /\ ControlFrame(h, kind)
    \/ \E h \in handlers, type \in {"ping"}, g \in FrameGroups :
            ops < FrameOps /\ ClientMessage(h, type, g)
    \/ \E h \in handlers : HandlerEnds(h)

SpecFrames == Init /\ [][NextFrames]_vars

(***************************************************************************)
(* SpecStats: add_activity with _update_activity_stats split at its two    *)
(* awaits, the get and the set of activity:stats:global.  Redis stays      *)
(* available, so that every command of every call succeeds.                *)
(***************************************************************************)
StatsEvents == 3    \* add_activity calls in one behaviour of SpecStats

\* activity:stats:global before any call
NoCounters == [counters |-> EmptyMap, last_activity |-> None]

\* _update_activity_stats, line 703: await self.redis.get(stats_key) or {};
\* RedisClient.get gives None on an error
AddStatsGet(p) ==
    /\ pc[p] = "update_stats"
    /\ local' = [local EXCEPT ![p] = <<local[p][1],
                                      IF redis_up THEN stats_global ELSE NoCounters>>]
    /\ Goto(p, "stats_set")
    /\ UNCHANGED <<reader>>
    /\ UNCHANGED feedVars
    /\ UNCHANGED wsVars
    /\ UNCHANGED topicVars
    /\ UNCHANGED configVars

\* _update_activity_stats, lines 706-717, and the return of add_activity:
\* the counters that were read are raised and written
AddStatsSet(p) ==
    /\ pc[p] = "stats_set"
    /\ LET a == local[p][1]
       IN  /\ stats_global' = IF redis_up THEN BumpStats(local[p][2], a)
                              ELSE stats_global
           /\ ret' = [op |-> "add_activity", value |-> a.id, user |-> None]
    /\ local' = [local EXCEPT ![p] = <<>>]
    /\ Goto(p, "idle")
    /\ UNCHANGED <<now, redis_up, recent_activities, activity_cache, redis_data,
                   sorted_global, bookmark_keys, appended, indexed_ever, ops, calls, reader>>
    /\ UNCHANGED wsVars
    /\ UNCHANGED topicVars
    /\ UNCHANGED configVars

NextStats ==
    \/ \E p \in Procs, inp \in Inputs :
            /\ Len(appended) < StatsEvents
            /\ now + 1 <= MaxTime
            /\ AddCreate(p, inp, 1, p - 1)
    \/ \E p \in Procs : AddSavePayload(p)
    \/ \E p \in Procs : AddZAdd(p)
    \/ \E p \in Procs : AddZRemRangeByRank(p)
    \/ \E p \in Procs : AddBroadcastDashboard(p)
    \/ \E p \in Procs : AddBroadcastNotifications(p)
    \/ \E p \in Procs : AddStatsGet(p)
    \/ \E p \in Procs : AddStatsSet(p)

SpecStats == Init /\ [][NextStats]_vars

(***************************************************************************)
(* SpecRoutes: the REST routes GET /activities and POST /activities in     *)
(* front of the manager, with enum values as the client writes them.       *)
(***************************************************************************)
RouteEvents == 2    \* events appended in one behaviour of SpecRoutes
RouteOps == 2       \* list calls and refused requests in one behaviour

\* the status of HTTPException(status_code=400, ...) and of
\* HTTPException(status_code=500, ...)
ClientError == 400
InternalError == 500

\* Enum(v) finds a member: it does not raise ValueError
IsValue(enum, v) == \E m \in DOMAIN enum : enum[m] = v

\* a value no enum has
Bogus == "bogus"

RawTypes == {ActivityType[m] : m \in DOMAIN ActivityType} \cup {Bogus}
RawPriorities == {ActivityPriority[m] : m \in DOMAIN ActivityPriority} \cup {Bogus}
RawSources == {ActivitySource[m] : m \in DOMAIN ActivitySource} \cup {Bogus}

\* the query parameters types, priorities and sources of GET /activities,
\* one value each or None when the parameter is absent
Queries ==
    [types : RawTypes \cup {None}, priorities : RawPriorities \cup {None},
     sources : RawSources \cup {None}]

\* lines 44-63: every parameter that is given converts
QueryConverts(q) ==
    /\ q.types # None => IsValue(ActivityType, q.types)
    /\ q.priorities # None => IsValue(ActivityPriority, q.priorities)
    /\ q.sources # None => IsValue(ActivitySource, q.sources)

\* lines 74-84: the filter handed to the manager
FilterOf(q) ==
    [NoFilter EXCEPT
        !.types = IF q.types = None THEN {} ELSE {EnumOf(ActivityType, q.types)},
        !.priorities = IF q.priorities = None THEN {}
                       ELSE {EnumOf(ActivityPriority, q.priorities)},
        !.sources = IF q.sources = None THEN {}
                    ELSE {EnumOf(ActivitySource, q.sources)}]

\* the route raises HTTPException(status): the manager is not called
Refuses(route, status) ==
    /\ ops' = ops + 1
    /\ ret' = [op |-> route, value |-> status, user |-> None]
    /\ UNCHANGED <<now, redis_up, recent_activities, activity_cache, redis_data,
                   sorted_global, bookmark_keys, stats_global, appended,
                   indexed_ever, calls>>
    /\ UNCHANGED wsVars
    /\ UNCHANGED concVars
    /\ UNCHANGED topicVars
    /\ UNCHANGED configVars

\* GET /activities on a value that does not convert: the HTTPException(400) of
\* lines 49, 56 and 63 is raised inside the try of line 40, whose only
\* handler, except Exception (line 116), catches it and raises
\* HTTPException(500)
RefusalStatus == InternalError

\* GET /activities
RouteGetActivities(limit, offset, q) ==
    IF QueryConverts(q)
    THEN ListActivities(limit, offset, FilterOf(q))
    ELSE Refuses("route_get_activities", RefusalStatus)

\* POST /activities: the HTTPException(400) of line 312 passes the handler
\* except HTTPException: raise (lines 336-337)
RouteAddActivity(type, priority, source, dt, hex) ==
    IF /\ IsValue(ActivityType, type)
       /\ IsValue(ActivityPriority, priority)
       /\ IsValue(ActivitySource, source)
    THEN AddActivity([type |-> EnumOf(ActivityType, type),
                      priority |-> EnumOf(ActivityPriority, priority),
                      source |-> EnumOf(ActivitySource, source),
                      title |-> "t1", user_id |-> None, tech_areas |-> {}],
                     dt, hex)
    ELSE Refuses("route_add_activity", ClientError)

NextRoutes ==
    \/ \E type \in RawTypes, priority \in RawPriorities, source \in RawSources :
            /\ Len(appended) < RouteEvents
            /\ now + 1 <= MaxTime
            /\ ops < RouteOps
            /\ RouteAddActivity(type, priority, source, 1, 0)
    \/ \E limit \in 1..2, q \in Queries :
            ops < RouteOps /\ RouteGetActivities(limit, 0, q)

SpecRoutes == Init /\ [][NextRoutes]_vars

(***************************************************************************)
(* Claims on the live channel.                                             *)
(***************************************************************************)
\* the subscribers of the feed: registered connections of /ws/dashboard
Subscribers == {c \in DOMAIN active_connections : c \in connection_groups["dashboard"]}
Healthy(c) == sockets[active_connections[c]] = "CONNECTED"

IsLive(m, id) == m.what = "new_activity" /\ m.ref = id /\ m.badge_text = "NEW"
LiveCopies(msgs, id) == Cardinality({i \in DOMAIN msgs : IsLive(msgs[i], id)})

\* C1 (as the spec states it): when add_activity broadcasts to N subscribers
\* of which exactly one, k, has a failing transport, each of the other N-1
\* subscribers receives the event exactly once and stays registered without
\* disconnect being called for it, and disconnect is called exactly once for
\* k, which receives nothing.
C1_BroadcastIsolation ==
    [][(/\ appended' # appended
        /\ \E k \in Subscribers :
              ~Healthy(k) /\ \A c \in Subscribers \ {k} : Healthy(c))
       => \A c \in Subscribers :
            LET s == active_connections[c]
                new == SubSeq(delivered'[s], Len(delivered[s]) + 1, Len(delivered'[s]))
                copies == LiveCopies(new, appended'[Len(appended')].id)
            IN  IF Healthy(c)
                THEN /\ copies = 1
                     /\ c \in DOMAIN active_connections'
                     /\ disconnect_calls'[c] = disconnect_calls[c]
                ELSE /\ copies = 0
                     /\ disconnect_calls'[c] = disconnect_calls[c] + 1]_vars

\* C2 (as the spec states it): a subscriber that is still registered with a
\* working transport has received every event appended since its connect
\* returned exactly once.
C2_ExactlyOnceWhileSubscribed ==
    \A c \in Subscribers :
        Healthy(c) =>
            LET s == active_connections[c]
            IN  \A i \in (joined[s] + 1)..Len(appended) :
                    LiveCopies(delivered[s], appended[i].id) = 1

IsActivityMessage(m) == m.what = "new_activity"

\* C3 (as the spec states it): a subscriber that connected after e1..e5 and
\* before e6 has received, of the feed, exactly e1..e5 as historical copies
\* in that order and then e6 live.
C3_ReplayThenLive ==
    \A c \in Subscribers :
        LET s == active_connections[c]
        IN  (Healthy(c) /\ joined[s] = 5 /\ Len(appended) = 6) =>
                SelectSeq(delivered[s], IsActivityMessage) =
                    [i \in 1..6 |->
                        IF i <= 5 THEN Historical(ActivityMessage(appended[i]))
                        ELSE ActivityMessage(appended[i])]

\* the total order of the events, on the messages that carry them
KeyLess(m1, m2) == m1.n < m2.n \/ (m1.n = m2.n /\ m1.ref < m2.ref)

\* msgs[i] is the first copy of its event in msgs
FirstCopy(msgs, i) ==
    /\ IsActivityMessage(msgs[i])
    /\ \A j \in 1..(i - 1) : ~(IsActivityMessage(msgs[j]) /\ msgs[j].ref = msgs[i].ref)

\* C4 (as the spec states it): on every websocket, of two events delivered
\* (replayed or live) the one with the smaller (created_at, id) arrives first;
\* only the first copy of an event counts.
C4_DeliveryFollowsTotalOrder ==
    \A s \in DOMAIN delivered :
        \A i, j \in DOMAIN delivered[s] :
            (/\ FirstCopy(delivered[s], i)
             /\ FirstCopy(delivered[s], j)
             /\ KeyLess(delivered[s][i], delivered[s][j])) => i < j

\* C6 (as the spec states it): an id enters the sorted index only when its
\* payload is stored, and every activity a get_activities call returns can be
\* fetched by its id when the call returns.
C6_PayloadBeforeIndex ==
    [][/\ \A id \in DOMAIN sorted_global' \ DOMAIN sorted_global :
              id \in DOMAIN redis_data'
       /\ (ret' # ret /\ ret'.op = "get_activities") =>
              \A k \in DOMAIN ret'.value :
                  GetById(activity_cache', redis_data', redis_up',
                          ret'.value[k].id) # <<>>]_vars

(***************************************************************************)
(* The claims about the event store.                                       *)
(***************************************************************************)
AppendedAs(id) == appended[CHOOSE i \in 1..Len(appended) : appended[i].id = id]

\* a is before b in the order (time score of created_at, id)
OrderKeyLess(a, b) ==
    LET sa == Score(AppendedAs(a).timestamp)
        sb == Score(AppendedAs(b).timestamp)
    IN  sa < sb \/ (sa = sb /\ a < b)

(* C5: reading the global index most-recent-first, range(0, N), returns the
   ids in non-increasing order of (time score of created_at, id): of two ids
   returned, the earlier one has the later time score, or the same time score
   and the greater id.  The index never holds more than max_activities_redis
   ids, so a greater N reads what N = max_activities_redis reads. *)
C5_RangeNewestFirst ==
    \A n \in 0..max_activities_redis :
        LET ids == ZRevRange(sorted_global, 0, n)
        IN  \A i, j \in 1..Len(ids) : i < j => OrderKeyLess(ids[j], ids[i])

\* two events of one millisecond, the later one with the smaller id, both read
C5_Witness ==
    \E i, j \in 1..Len(appended) :
        /\ i < j
        /\ appended[i].id > appended[j].id
        /\ appended[i].timestamp < appended[j].timestamp
        /\ ZRevRange(sorted_global, 0, 1) = <<appended[i].id, appended[j].id>>

(* C7 (as the spec states it): the global index never holds more than
   max_activities_redis ids, and it holds exactly the
   min(total, max_activities_redis) newest of the ids add_activity has
   returned: every appended id that is not in the index is older, by
   (time score, id), than every id in it. *)
C7_IndexHoldsNewestAppended ==
    /\ Cardinality(DOMAIN sorted_global) <= max_activities_redis
    /\ Cardinality(DOMAIN sorted_global) =
           Min2(Cardinality(UsedIds), max_activities_redis)
    /\ DOMAIN sorted_global \subseteq UsedIds
    /\ \A x \in DOMAIN sorted_global, y \in UsedIds \ DOMAIN sorted_global :
           OrderKeyLess(y, x)

(* C8: append never returns an event id for an event whose payload and
   index entry were not written to the store (when the store is unreachable
   it fails instead). *)
C8_AppendReturnsOnlyStoredIds ==
    [][appended' # appended =>
          (ret'.value \in DOMAIN redis_data' /\ ret'.value \in indexed_ever')]_vars

(***************************************************************************)
(* The claims about the overlay.                                           *)
(***************************************************************************)
\* the record get returns equals what add_activity was given, but for the
\* overlay fields read and bookmarked
SameEvent(a, h) ==
    /\ a.id = h.id
    /\ a.timestamp = h.timestamp
    /\ a.type = h.input.type
    /\ a.priority = h.input.priority
    /\ a.source = h.input.source
    /\ a.title = h.input.title
    /\ a.user_id = h.input.user_id
    /\ a.tech_areas = h.input.tech_areas

(* C9: after append(e) has returned id, get(id) returns a record equal to e
   in every field but read and bookmarked (and carrying the assigned id and
   created_at), right after the append and after any later appends, lists,
   mark_read and toggle_bookmark calls, as long as get finds the event; the
   records list returns are equal to what was appended in the same way. *)
C9_RoundTripImmutable ==
    /\ \A i \in 1..Len(appended) :
           LET got == GetActivityById(appended[i].id)
           IN  got # <<>> => SameEvent(got[1], appended[i])
    /\ ret.op = "add_activity" => GetActivityById(ret.value) # <<>>
    /\ ret.op = "get_activities" =>
           \A k \in 1..Len(ret.value) :
               SameEvent(ret.value[k], AppendedAs(ret.value[k].id))

\* an event marked read, then evicted from the cache, and read back from Redis
C9_Witness ==
    \E i \in 1..Len(appended) :
        /\ appended[i].id \notin DOMAIN activity_cache
        /\ GetActivityById(appended[i].id) # <<>>
        /\ GetActivityById(appended[i].id)[1].read
        /\ Len(appended) = MaxEvents

\* what any user gets for the event from get_by_id and from list
OverlayView(cache, data, up, id) ==
    LET got == GetById(cache, data, up, id)
    IN  IF got = <<>> THEN <<>> ELSE <<got[1].read, got[1].bookmarked>>

(* C10: after user A calls mark_read or toggle_bookmark on an event, the
   read and bookmarked values another user B observes for that event through
   get_by_id are the same as before the call. *)
C10_OverlayPrivate ==
    [][(ops' = ops + 1 /\ ret'.op \in {"mark_activity_read", "bookmark_activity"}) =>
          \A id \in UsedIds :
              OverlayView(activity_cache', redis_data', redis_up', id) =
              OverlayView(activity_cache, redis_data, redis_up, id)]_vars

(***************************************************************************)
(* The claims about mark_read, toggle_bookmark and list_bookmarks.         *)
(***************************************************************************)
\* the entry of the last call, before and after a step that is a call
LastCall == calls[Len(calls)]
ThisCall == calls'[Len(calls')]

\* the step is the call op, and the call before it, with no add_activity in
\* between, was op for the same user and event and found the event
Repeats(op) ==
    /\ Len(calls) >= 1
    /\ Len(calls') = Len(calls) + 1
    /\ ThisCall.op = op
    /\ LastCall.op = op
    /\ ret.op = op
    /\ LastCall.id = ThisCall.id
    /\ LastCall.user = ThisCall.user

(* C11: mark_read is idempotent.  When mark_read(user, event) has succeeded
   and the same call is made again, the second call succeeds too; and unless
   Redis was away at the first call and is back at the second (so that the
   second call writes what the first could not), the second call changes
   nothing: the cache, the payloads with their read flag, the index, the
   counters and the bookmarks are what the first call left, and with Redis
   as reachable as at the first call the user's overlay reads the same. *)
C11_MarkReadIdempotent ==
    [][(Repeats("mark_activity_read") /\ LastCall.value = TRUE) =>
          /\ ThisCall.value = TRUE
          /\ (ThisCall.up => LastCall.up) =>
                 /\ UNCHANGED <<recent_activities, activity_cache, redis_data,
                                sorted_global, bookmark_keys, stats_global>>
                 /\ (ThisCall.up = LastCall.up) => ThisCall.after = LastCall.after]_vars

\* mark_read twice on an event, Redis there: the payload carries read = true
C11_Witness ==
    /\ Len(calls) = 3
    /\ calls[2].op = "mark_activity_read" /\ calls[3].op = "mark_activity_read"
    /\ calls[2].id = calls[3].id /\ calls[2].user = calls[3].user
    /\ calls[2].value = TRUE /\ calls[3].value = TRUE
    /\ calls[2].up /\ calls[3].up
    /\ ret.op = "mark_activity_read"
    /\ calls[3].id \in DOMAIN redis_data
    /\ redis_data[calls[3].id].read

(* C12 (as the spec states it): when toggle_bookmark(user, event) is called
   twice in a row on an event both calls find, the bookmark the store holds
   for (user, event) after the second call is what it held before the first,
   and list_bookmarks(user) lists the same events as before the first. *)
C12_ToggleTwiceRestores ==
    [][(/\ Repeats("bookmark_activity")
        /\ LastCall.value[1]
        /\ ThisCall.value[1]) => ThisCall.after = LastCall.before]_vars

(* C13 (as the spec states it): a toggle_bookmark(user, event) call that
   finds the event returns the new bookmark state of (user, event): the
   boolean it returns is the negation of what the store held for the pair
   before the call and is what the store holds for it after the call. *)
C13_ToggleReturnsNewState ==
    \A i \in 1..Len(calls) :
        (calls[i].op = "bookmark_activity" /\ calls[i].value[1]) =>
            /\ calls[i].value[2] = ~calls[i].before.stored
            /\ calls[i].value[2] = calls[i].after.stored

\* the retention TTL of the payload of id has run out, and nothing wrote it again
Expired(id) ==
    /\ id \notin DOMAIN redis_data
    /\ \E i \in 1..Len(calls) : calls[i].op = "expire" /\ calls[i].id = id

\* the step is a mark_read or toggle_bookmark call
OverlayCall ==
    /\ Len(calls') = Len(calls) + 1
    /\ ThisCall.op \in {"mark_activity_read", "bookmark_activity"}

\* the route answers 404: mark_activity_read or bookmark_activity returned False
NotFound(call) ==
    IF call.op = "mark_activity_read" THEN call.value = FALSE
    ELSE call.value[1] = FALSE

(* C14 (as the spec states it): mark_read and toggle_bookmark on an event id
   that was never returned by append, or whose payload has expired, answer
   NotFound and change nothing: no bookmark key, no payload, no index entry
   and no cache entry is written or deleted. *)
C14_UnknownOrExpiredIsNotFound ==
    [][(OverlayCall /\ (ThisCall.id \notin UsedIds \/ Expired(ThisCall.id))) =>
          /\ NotFound(ThisCall)
          /\ UNCHANGED <<recent_activities, activity_cache, redis_data,
                         sorted_global, bookmark_keys, stats_global>>]_vars

\* the ids of S, the one created last first
NewestFirst(S) ==
    [i \in 1..Cardinality(S) |->
        CHOOSE x \in S :
            Cardinality({y \in S :
                AppendedAs(y).timestamp > AppendedAs(x).timestamp}) = i - 1]

\* the events get_activity_by_id finds for which the store holds the
\* bookmark key of this very user
OwnBookmarks(user) ==
    {id \in UsedIds : <<user, id>> \in bookmark_keys /\ GetActivityById(id) # <<>>}

(* C15 (as the spec states it): while Redis is reachable,
   list_bookmarks(user, limit, offset) returns exactly the retained events
   that this user has bookmarked, the newest first, cut to
   [offset, offset + limit); an event only another user has bookmarked is
   never in it. *)
C15_ListsOwnBookmarksOnly ==
    redis_up =>
        \A u \in BookmarkUsers, limit \in 1..2, offset \in 0..1 :
            LET r == GetBookmarkedActivities(bookmark_keys, activity_cache,
                                            redis_data, redis_up, u, limit,
                                            offset).result
            IN  [k \in 1..Len(r) |-> r[k].id] =
                    Slice(NewestFirst(OwnBookmarks(u)), offset, offset + limit)

(***************************************************************************)
(* Claims on the two connection registries.                                *)
(***************************************************************************)
\* C16: in both registries, every connection id in a group, in a topic or in
\* a user's set is a registered connection, whatever path removed the others
\* (disconnect, a send that failed, the heartbeat sweep).
C16_MembersAreRegistered ==
    /\ \A g \in DOMAIN connection_groups :
            connection_groups[g] \subseteq DOMAIN active_connections
    /\ \A t \in DOMAIN subscriptions : subscriptions[t] \subseteq DOMAIN connections
    /\ \A u \in DOMAIN user_connections :
            user_connections[u] \subseteq DOMAIN connections

\* a failed send has removed a dashboard client whose handler still runs,
\* while a subscriber of a topic remains
C16_Witness ==
    /\ \E h \in handlers :
            /\ h[1] \notin DOMAIN active_connections
            /\ sockets[h[2]] = "BROKEN"
    /\ \E t \in DOMAIN subscriptions : subscriptions[t] # {}

\* the registries, what clients were sent and the replay history
registryView ==
    <<active_connections, connection_groups, connection_metadata,
      recent_messages, connections, user_connections, subscriptions, delivered>>

\* a handler ends and its finally calls ConnectionManager.disconnect for an
\* id that is not registered any more
DisconnectsAgain ==
    \E h \in handlers : h \notin handlers' /\ h[1] \notin DOMAIN active_connections

\* WebSocketManager.disconnect is called for an id that is not registered
WsmDisconnectsAgain ==
    ops' # ops /\ ret'.op = "disconnect" /\ ret'.value \notin DOMAIN connections

\* C17: disconnect for an id that is not registered (a second call, or an id
\* never registered) sends no message and leaves registry, memberships and
\* replay history as they were.
C17_DisconnectIdempotent ==
    [][(DisconnectsAgain \/ WsmDisconnectsAgain) => UNCHANGED registryView]_vars

\* add_activity broadcasts the new event to the topic "activity_feed" and to
\* the group "dashboard"
FeedBroadcasts == appended' # appended

\* the websocket s is sent the new event in this step
SentNewActivity(s) ==
    \E i \in (Len(delivered[s]) + 1)..Len(delivered'[s]) :
        delivered'[s][i].what = "new_activity"

\* the last control frame of connection c about the group g asked for kind,
\* and the transport of c works
Asked(c, s, g, kind) ==
    /\ <<c, g>> \in DOMAIN wanted
    /\ wanted[<<c, g>>] = kind
    /\ sockets[s] = "CONNECTED"

SubscribedAreSent ==
    /\ \A c \in DOMAIN connections :
            Asked(c, connections[c].websocket, "activity_feed", "subscribe")
                => SentNewActivity(connections[c].websocket)
    /\ \A c \in DOMAIN active_connections :
            Asked(c, active_connections[c], "dashboard", "subscribe")
                => SentNewActivity(active_connections[c])

UnsubscribedAreNotSent ==
    /\ \A c \in DOMAIN connections :
            Asked(c, connections[c].websocket, "activity_feed", "unsubscribe")
                => ~SentNewActivity(connections[c].websocket)
    /\ \A c \in DOMAIN active_connections :
            Asked(c, active_connections[c], "dashboard", "unsubscribe")
                => ~SentNewActivity(active_connections[c])

\* subscribe(connection_id, topic) is called for an id that is not registered
SubscribesUnregistered ==
    ops' # ops /\ ret'.op = "subscribe" /\ ret'.value[1] \notin DOMAIN connections

\* C18: once a connection's subscribe for a group is processed every later
\* broadcast to the group is sent to it, once its unsubscribe is processed no
\* later broadcast to the group is sent to it, and subscribe for an id that
\* is not registered fails and changes no membership.
C18_SubscribeUnsubscribeChangeMembership ==
    [][/\ FeedBroadcasts => SubscribedAreSent /\ UnsubscribedAreNotSent
       /\ SubscribesUnregistered =>
            /\ ret'.value[2] = FALSE
            /\ UNCHANGED <<connections, user_connections, subscriptions,
                           connection_groups>>]_vars

(***************************************************************************)
(* Claims on get_activities.                                               *)
(***************************************************************************)
\* the events the store holds: in the index, with a payload
Retained == DOMAIN sorted_global \cap DOMAIN redis_data

\* a dimension with values supplied is satisfied by one of them
OneOf(supplied, v) == supplied = {} \/ v \in supplied

\* the event appended as e satisfies every dimension of f that is supplied;
\* user_id, when given, is one more dimension: the actor is the user or nobody
Satisfies(e, f) ==
    /\ OneOf(f.types, e.input.type)
    /\ OneOf(f.priorities, e.input.priority)
    /\ OneOf(f.sources, e.input.source)
    /\ f.tech_areas = {} \/ \E area \in f.tech_areas : area \in e.input.tech_areas
    /\ f.since = NoSince \/ e.timestamp >= f.since
    /\ f.include_system \/ e.input.source # "SYSTEM"
    /\ f.user_id = None \/ e.input.user_id \in {f.user_id, None}

IdsOf(acts) == {acts[k].id : k \in 1..Len(acts)}

\* get_activities asked for more events than the store can hold
ListAll(f) == GetActivities(max_activities_redis + 1, 0, f).result

\* _filter_activities over the cache
FilterCache(f) ==
    FilterActivities([k \in 1..Len(recent_activities) |->
                         activity_cache[recent_activities[k]]], f)

\* C19: while Redis is reachable, a list that asks for everything returns an
\* event exactly when the event is retained and satisfies every supplied
\* dimension, a value of a dimension matching when it is one of the supplied
\* ones; since is inclusive, and a since after every event returns nothing;
\* include_system = false drops exactly the events of origin system.  The
\* filter over the cache selects by the same rule.
C19_FilterSemantics ==
    \A f \in FilterSpace :
        /\ redis_up =>
              IdsOf(ListAll(f)) = {id \in Retained : Satisfies(AppendedAs(id), f)}
        /\ IdsOf(FilterCache(f)) =
              {id \in Range(recent_activities) : Satisfies(AppendedAs(id), f)}
        /\ (redis_up /\ f.since # NoSince
              /\ \A i \in 1..Len(appended) : appended[i].timestamp < f.since)
              => ListAll(f) = <<>>

\* get_activities has run, and under a filter with type and since supplied
\* the store returns some of its events and not all, one of them created at
\* since itself
C19_Witness ==
    /\ redis_up
    /\ ret.op = "get_activities"
    /\ \E f \in FilterSpace :
          /\ f.types # {} /\ f.since # NoSince
          /\ LET r == ListAll(f)
             IN  /\ r # <<>>
                 /\ Len(r) < Cardinality(Retained)
                 /\ \E k \in 1..Len(r) : r[k].timestamp = f.since

\* the ids of S in the global order, the newest first
GlobalOrder(S) ==
    [i \in 1..Cardinality(S) |->
        CHOOSE x \in S : Cardinality({y \in S : OrderKeyLess(x, y)}) = i - 1]

\* the retained events that match f, the newest first
MatchingNewestFirst(f) ==
    GlobalOrder({id \in Retained : Satisfies(AppendedAs(id), f)})

\* Redis is reachable and was when each event was appended, and no payload
\* of an indexed event has expired
StoreComplete ==
    /\ redis_up
    /\ \A i \in 1..Len(appended) : appended[i].id \in indexed_ever
    /\ DOMAIN sorted_global \subseteq DOMAIN redis_data

PageIds(limit, offset, f) ==
    LET r == GetActivities(limit, offset, f).result
    IN  [k \in 1..Len(r) |-> r[k].id]

(* C20 (as the spec states it): with the store complete and nothing appended
   or evicted meanwhile, list(filters, limit, offset) returns exactly the
   elements [offset, offset + limit) of the newest-first sequence of all
   retained events that match the filters. *)
C20_PageIsSliceOfGlobalOrder ==
    StoreComplete =>
        \A f \in CalledFilters, limit \in 1..2, offset \in 0..1 :
            PageIds(limit, offset, f) =
                Slice(MatchingNewestFirst(f), offset, offset + limit)

\* the sum of the counts of a dict
RECURSIVE SumOf(_)
SumOf(c) ==
    IF DOMAIN c = {} THEN 0
    ELSE LET k == CHOOSE x \in DOMAIN c : TRUE
         IN  c[k] + SumOf([x \in DOMAIN c \ {k} |-> c[x]])

\* the retained events created in the window that starts at since
InWindow(since) == {id \in Retained : AppendedAs(id).timestamp >= since}

StatsWindows == {0, 2, MaxTime + 1}

(* C21 (as the spec states it): with the store complete, stats(window) counts
   every retained event created in the window: total is their number,
   by_type and by_priority each sum to total, most_active_origin has the
   greatest count among them and last_event_at is the created_at of the
   newest of them. *)
C21_StatsCountWindow ==
    StoreComplete =>
        \A since \in StatsWindows :
            LET st == GetActivityStats(since)
                W == InWindow(since)
                n(origin) == Cardinality({id \in W :
                                 ActivitySource[AppendedAs(id).input.source] = origin})
            IN  /\ st.total_activities = Cardinality(W)
                /\ SumOf(st.activities_by_type) = st.total_activities
                /\ SumOf(st.activities_by_priority) = st.total_activities
                /\ W # {} =>
                      /\ \A o \in {ActivitySource[m] : m \in DOMAIN ActivitySource} :
                            n(o) <= n(st.most_active_source)
                      /\ st.last_activity = AppendedAs(GlobalOrder(W)[1]).timestamp

(***************************************************************************)
(* Claims on the cache.                                                    *)
(***************************************************************************)
\* the cached events, the list as it stands, are in newest-first order of
\* created_at
CacheNewestFirst(recent, cache) ==
    \A i, j \in 1..Len(recent) :
        i < j => cache[recent[i]].timestamp >= cache[recent[j]].timestamp

\* the step is an append
Appends == appended' # appended

(* C22 (as the spec states it): after every append the recent list holds at
   most max_activities events, the event just appended is at its front, the
   list is in newest-first order, and it is the list of before with the new
   event in front and, when that overflows, without its last event. *)
C22_CacheIsBoundedRing ==
    [][Appends =>
          /\ Len(recent_activities') <= max_activities
          /\ recent_activities'[1] = appended'[Len(appended')].id
          /\ CacheNewestFirst(recent_activities', activity_cache')
          /\ recent_activities' =
                Slice(<<recent_activities'[1]>> \o recent_activities, 0,
                      max_activities)
          /\ DOMAIN activity_cache' = Range(recent_activities')]_vars


\* the step is initialize() of a new process over the same Redis
Restarts == ret'.op = "initialize" /\ ops' # ops

(* C23 (as the spec states it): every event held in the cache is one whose
   append reached the store, and rebuilding the cache from a reachable store
   on restart yields the list the cache held before, the same events in the
   same order. *)
C23_CacheMirrorsStore ==
    [][/\ Range(recent_activities') \subseteq indexed_ever'
       /\ (Restarts /\ redis_up) =>
             /\ recent_activities' = recent_activities
             /\ activity_cache' = activity_cache]_vars


(***************************************************************************)
(* Claims on the fan-out.                                                  *)
(***************************************************************************)
\* a fan-out under way still has to send to connection c
Owed(c) ==
    \E p \in Broadcasters :
        \/ pc[p] = "broadcast_to_topic" /\ c \in Range(Queue(p))
        \/ pc[p] \in {"gather_dashboard", "gather_notifications"} /\ c \in Pending(p)

\* the websocket of connection c does not take what is sent
Stalls(c) ==
    \/ c \in DOMAIN connections /\ sockets[connections[c].websocket] = "STALLED"
    \/ c \in DOMAIN active_connections /\ sockets[active_connections[c]] = "STALLED"

\* the same, for the groups of ConnectionManager alone
GroupFanoutGoesOn ==
    \A c \in FanoutConnIds : Owed(c) ~> (~Owed(c) \/ Stalls(c))

(* C24 (as the spec states it): a subscriber a fan-out of a group or of a
   topic still has to send to is eventually sent to (or found gone), unless
   its own websocket stalls, whatever the websockets of the other
   subscribers do. *)
C24_StallDoesNotDelayOthers ==
    \A c \in FanoutConnIds \cup FanoutWsmIds : Owed(c) ~> (~Owed(c) \/ Stalls(c))


\* connection c is in a registry
Registered(c) == c \in DOMAIN connections \/ c \in DOMAIN active_connections

\* add_activity is under way in task p
Appending(p) == pc[p] # "idle"

(* C25 (as the spec states it, in what a caller can observe of it): a
   connection that does not take what a fan-out sends to it is disconnected,
   and the add_activity that broadcasts returns without waiting for it. *)
C25_SlowIsDroppedAndProducerReturns ==
    /\ \A p \in Broadcasters : Appending(p) ~> ~Appending(p)
    /\ \A c \in FanoutConnIds \cup FanoutWsmIds :
            (Owed(c) /\ Stalls(c)) ~> ~Registered(c)


\* the add_activity call of this step
LastAppended == appended'[Len(appended')]

(* C26: an add_activity whose store write succeeds returns the id of the
   event, and the event can be read from the store, whatever the sends of
   the fan-out and the broadcasters do. *)
C26_BroadcastFailuresStayLocal ==
    [][(Appends /\ redis_up) =>
          /\ ret'.op = "add_activity"
          /\ ret'.value = LastAppended.id
          /\ LastAppended.id \in DOMAIN sorted_global'
          /\ GetById(EmptyMap, redis_data', redis_up', LastAppended.id) # <<>>]_vars

\* an event was stored and its id returned although a broadcaster raised,
\* and another although every send of its fan-out failed
C26_Witness ==
    /\ Len(appended) = 2
    /\ appended[1].fault # "none"
    /\ appended[1].id \in indexed_ever
    /\ appended[2].fault = "none"
    /\ appended[2].id \in indexed_ever
    /\ ret.op = "add_activity"
    /\ ret.value = appended[2].id
    /\ \E c \in DOMAIN disconnect_calls : disconnect_calls[c] > 0
    /\ DOMAIN active_connections \cup DOMAIN connections = {}
    /\ \A s \in DOMAIN delivered :
            \A k \in 1..Len(delivered[s]) :
                delivered[s][k].what = "new_activity" =>
                    delivered[s][k].ref # appended[2].id


(***************************************************************************)
(* Claims on the heartbeat.                                                *)
(***************************************************************************)
\* connection c of WebSocketManager is registered and its last activity is
\* older than the heartbeat window
Idle(c) ==
    /\ c \in DOMAIN connections
    /\ connections[c].last_ping < now - connection_timeout

\* the step is a sweep of the heartbeat task
Sweeps == cleanup_task /\ ret'.op = "_cleanup_connections" /\ pc' = pc /\ now' = now

\* a connection whose last activity is inside the window outlives a sweep
SweepSparesActive ==
    [][Sweeps => \A c \in DOMAIN connections : ~Idle(c) => c \in DOMAIN connections']_vars

(* C27 (as the spec states it): a connection that has stayed without
   activity for longer than the heartbeat window is eventually disconnected,
   and with that out of every membership, also when a shutdown of the
   registry was overlapped by a connect. *)
C27_IdleAreDisconnected ==
    \A c \in HeartbeatWsmIds : Idle(c) ~> ~Idle(c)


(***************************************************************************)
(* Claims on what a new connection is sent.                                *)
(***************************************************************************)
\* the message that tells a client it is connected
IsAck(m) == m.what \in {"connected", "admin_connected", "connection_established"}

\* a copy made by _send_history_to_connection of a message of the history
IsReplayed(m) ==
    /\ m.what \in {"new_activity", "user_connected", "user_disconnected"}
    /\ m.type \in {"USER_ACTION", "SYSTEM_STATUS"}
    /\ m.badge_text = None
    /\ m.auto_dismiss = None

Phase(m) == IF IsAck(m) THEN 0 ELSE IF IsReplayed(m) THEN 1 ELSE 2

\* the messages sent on websocket s are acks, then replayed, then live ones
InPhaseOrder(s) ==
    \A i, j \in 1..Len(delivered[s]) :
        i < j => Phase(delivered[s][i]) <= Phase(delivered[s][j])

(* C28 (as the spec states it): what a connection is sent starts with the
   connection-ack, goes on with the replayed history and then with live
   messages. *)
C28_AckThenReplayThenLive ==
    \A s \in DOMAIN delivered :
        /\ delivered[s] # <<>> => IsAck(delivered[s][1])
        /\ InPhaseOrder(s)


\* the history after the step is the one of before with what the step
\* added, cut to its last max_history messages; no stored message changed
HistoryKeepsNewest ==
    \E n \in 0..Len(recent_messages') :
        recent_messages' =
            LastN(recent_messages \o LastN(recent_messages', n), max_history)

\* websocket s, opened by the step, is sent the last HistoryReplay messages
\* of the history as it stood, in their order, each flagged historical
ReplaysLast(s) ==
    LET replay == SelectSeq(delivered'[s], IsReplayed)
        last == LastN(recent_messages, HistoryReplay)
    IN  /\ Len(replay) <= HistoryReplay
        /\ replay = [i \in 1..Len(last) |-> Historical(last[i])]

(* C29: recent_messages never holds more than max_history messages and
   loses its oldest first; a connect replays the last 10 of them in their
   order, each with badge_text and auto_dismiss cleared; and the messages
   stored in the history keep their flags. *)
C29_ReplayBoundedAndFlagged ==
    [][/\ Len(recent_messages') <= max_history
       /\ HistoryKeepsNewest
       /\ \A s \in DOMAIN delivered' \ DOMAIN delivered : ReplaysLast(s)
       /\ \A i \in 1..Len(recent_messages') :
              recent_messages'[i].what = "new_activity" =>
                  recent_messages'[i].badge_text = "NEW"]_vars

\* the history is full and has lost the first event, which had entered it,
\* and a client that connected after that was replayed 10 messages
C29_Witness ==
    /\ Len(recent_messages) = max_history
    /\ Len(appended) > 0
    /\ 1 \in DOMAIN delivered
    /\ \E k \in 1..Len(delivered[1]) : IsLive(delivered[1][k], appended[1].id)
    /\ \A i \in 1..Len(recent_messages) : recent_messages[i].ref # appended[1].id
    /\ \E s \in DOMAIN delivered :
          /\ joined[s] * 2 > max_history
          /\ Len(SelectSeq(delivered[s], IsReplayed)) = HistoryReplay


(***************************************************************************)
(* Claims on control frames.                                               *)
(***************************************************************************)
\* the step is the treatment of a malformed frame
TreatsFrame == ret'.op = "control_frame" /\ ops' # ops

\* the handlers whose connection is the one registered under the id the
\* frame came with
FrameSenders ==
    {h \in handlers : /\ h[1] = ret'.value
                      /\ h[1] \in DOMAIN active_connections
                      /\ active_connections[h[1]] = h[2]}

\* the websocket of h was sent one more message, an error frame
AnsweredWithError(h) ==
    /\ Len(delivered'[h[2]]) = Len(delivered[h[2]]) + 1
    /\ delivered'[h[2]][Len(delivered'[h[2]])] = ErrorMessage(h[1])

\* the connection of h is registered as before
StaysRegistered(h) ==
    /\ h[1] \in DOMAIN active_connections'
    /\ connection_groups' = connection_groups
    /\ h \in handlers'

(* C30 (as the spec states it): a frame that is not JSON, not a JSON object
   or of an unknown type, on /ws/dashboard or /ws/admin, is answered with an
   error frame and leaves the connection registered in all its groups. *)
C30_MalformedFrameGetsErrorFrame ==
    [][TreatsFrame =>
          \A h \in FrameSenders : AnsweredWithError(h) /\ StaysRegistered(h)]_vars

(***************************************************************************)
(* Claims on reads during an outage of Redis.                              *)
(***************************************************************************)
\* the events of the cache, newest first, as get_activities reads them
CachedActivities ==
    [k \in 1..Len(recent_activities) |-> activity_cache[recent_activities[k]]]

\* the page [offset, offset + limit) of the cache
CachePage(limit, offset) == Slice(CachedActivities, offset, offset + limit)

\* get_activities was called with this page while Redis was away
ListsInOutage(limit, offset) == ~redis_up /\ ListActivities(limit, offset, NoFilter)

(* C31 (as the spec states it): while Redis is away, get_activities returns
   the events the cache holds, for every limit and offset. *)
C31_OutageReadsCache ==
    [][\A limit \in 1..2, offset \in 0..1 :
          ListsInOutage(limit, offset) => ret'.value = CachePage(limit, offset)]_vars

\* the part of C31 that holds: a page the cache serves by itself (offset 0 and
\* no more events than the cache holds) is returned during an outage
OutageServesFirstPage ==
    [][\A limit \in 1..2 :
          (ListsInOutage(limit, 0) /\ limit <= Len(recent_activities))
              => ret'.value = CachePage(limit, 0)]_vars

\* and get_activity_by_id returns every cached event during an outage
OutageGetsCached ==
    ~redis_up => \A id \in DOMAIN activity_cache :
                    GetActivityById(id) = <<activity_cache[id]>>

(***************************************************************************)
(* Claims on the REST routes.                                              *)
(***************************************************************************)
\* the step is a request the route refused for a value that does not convert
RefusesList == ret'.op = "route_get_activities" /\ ops' # ops
RefusesAppend == ret'.op = "route_add_activity" /\ ops' # ops

\* the step leaves every event and every flag as it was
NoEventTouched ==
    UNCHANGED <<recent_activities, activity_cache, redis_data, sorted_global,
                bookmark_keys, stats_global, appended>>

(* C32 (as the spec states it): a request with an enum value that does not
   exist, to list or to append, is answered with a client error and reads or
   writes no event. *)
C32_BadEnumIsClientError ==
    [][(RefusesList \/ RefusesAppend)
          => (ret'.value = ClientError /\ NoEventTouched)]_vars

\* the parts of C32 that hold: the append route answers with the client
\* error, and neither route touches an event
BadEnumOnAppendIsClientError ==
    [][RefusesAppend => (ret'.value = ClientError /\ NoEventTouched)]_vars

BadEnumTouchesNothing == [][RefusesList => NoEventTouched]_vars

(***************************************************************************)
(* Claims on what other clients do to a connection.                        *)
(***************************************************************************)
\* the groups that list the connection id c
GroupsOf(c) == {g \in DOMAIN connection_groups : c \in connection_groups[g]}

\* the client of handler h is connected: its transport is up and it is the
\* one registered under its id
IsOpen(h) ==
    /\ sockets[h[2]] = "CONNECTED"
    /\ h[1] \in DOMAIN active_connections
    /\ active_connections[h[1]] = h[2]

\* the step is not the end of h itself, and no send to h can have failed
Undisturbed(h) == h \in handlers' /\ sockets'[h[2]] = "CONNECTED"

\* h is registered after the step as it was before
KeepsRegistration(h) ==
    /\ h[1] \in DOMAIN active_connections'
    /\ active_connections'[h[1]] = h[2]
    /\ \A g \in GroupsOf(h[1]) : h[1] \in connection_groups'[g]

(* C33 (as the spec states it): a connection that is open and neither ends
   nor fails a send stays registered, with its transport and in its groups,
   whatever other clients connect or disconnect, also under the same id. *)
C33_OthersDoNotUnregister ==
    [][\A h \in handlers : (IsOpen(h) /\ Undisturbed(h)) => KeepsRegistration(h)]_vars

\* the part of C33 that holds: a step of a client with another id leaves the
\* registration alone
OtherIdsDoNotUnregister ==
    [][\A h \in handlers :
          (/\ IsOpen(h)
           /\ Undisturbed(h)
           /\ \A o \in (handlers \cup handlers') \ {h} : o[1] # h[1])
              => KeepsRegistration(h)]_vars

(***************************************************************************)
(* Claims on the groups of replayed messages.                              *)
(***************************************************************************)
\* the groups a message was broadcast to: an event goes to dashboard and to
\* notifications (_broadcast_activity), the notices of connect and
\* disconnect go to admin
BroadcastGroups(m) ==
    CASE m.what = "new_activity" -> {"dashboard", "notifications"}
      [] m.what \in {"user_connected", "user_disconnected"} -> {"admin"}
      [] OTHER -> {}

\* the groups the endpoint of handler h registers its client in
EndpointGroups(h) ==
    IF h[3] = "dashboard" THEN Range(DashboardGroups) ELSE Range(AdminGroups)

\* every message with property P that the client of h was sent had been
\* broadcast to one of its groups
WithinGroups(h, P(_)) ==
    \A k \in 1..Len(delivered[h[2]]) :
        P(delivered[h[2]][k]) =>
            BroadcastGroups(delivered[h[2]][k]) \cap EndpointGroups(h) # {}

(* C34 (as the spec states it): every message replayed to a new connection
   had been broadcast to a group the connection is a member of. *)
C34_ReplayStaysWithinGroups == \A h \in handlers : WithinGroups(h, IsReplayed)

\* a broadcast message that is not a replayed copy
IsLiveBroadcast(m) == BroadcastGroups(m) # {} /\ ~IsReplayed(m)

\* no two handlers serve the same connection id
OwnIds(H) == \A h, o \in H : h[1] = o[1] => h = o

\* the part that holds: while every client has an id of its own, the live
\* messages a step sends to a client were broadcast to one of its groups
LiveStaysWithinGroups ==
    [][(OwnIds(handlers) /\ OwnIds(handlers')) =>
          \A h \in handlers' :
              \A k \in 1..Len(delivered'[h[2]]) :
                  (/\ h[2] \in DOMAIN delivered => k > Len(delivered[h[2]])
                   /\ IsLiveBroadcast(delivered'[h[2]][k]))
                      => BroadcastGroups(delivered'[h[2]][k]) \cap EndpointGroups(h) # {}]_vars

(***************************************************************************)
(* Claims on the order of storing and broadcasting.                        *)
(***************************************************************************)
\* the step sends the live message of event e on websocket s
SendsLive(s, e) ==
    \E k \in 1..Len(delivered'[s]) :
        /\ s \in DOMAIN delivered => k > Len(delivered[s])
        /\ IsLive(delivered'[s][k], e)

\* get_activity_by_id(e), called when the step is over, returns the event
ReadableAfter(e) ==
    LET got == GetById(activity_cache', redis_data', redis_up', e)
    IN  got # <<>> /\ got[1].id = e

(* C35 (as the spec states it): when a subscriber is sent the live message
   of event e, get_activity_by_id(e) returns e. *)
C35_BroadcastAfterReadable ==
    [][\A s \in DOMAIN delivered', e \in UsedIds' :
          SendsLive(s, e) => ReadableAfter(e)]_vars

\* the part of the claim on the cache alone: the event is in the cache when
\* its live message is sent
CachedWhenBroadcast ==
    [][\A s \in DOMAIN delivered', e \in UsedIds' :
          SendsLive(s, e) => e \in DOMAIN activity_cache']_vars

(***************************************************************************)
(* Claims on what mark_activity_read writes.                               *)
(***************************************************************************)
\* the step is the call mark_activity_read(id) of some user
MarksRead(id) == \E user \in Users : MarkActivityRead(id, user)

\* the payloads of all events but id are left as they were
OtherPayloadsKept(id) ==
    \A i \in (DOMAIN redis_data \cup DOMAIN redis_data') \ {id} :
        /\ i \in DOMAIN redis_data
        /\ i \in DOMAIN redis_data'
        /\ redis_data'[i] = redis_data[i]

(* C36 (as the spec states it): mark_activity_read leaves the global index
   as it was, ids and order, lets no expired payload come back, and changes
   neither the payload of another event nor a bookmark. *)
C36_MarkReadFrame ==
    [][\A id \in KnownIds :
          MarksRead(id) =>
              /\ sorted_global' = sorted_global
              /\ DOMAIN redis_data' = DOMAIN redis_data
              /\ OtherPayloadsKept(id)
              /\ bookmark_keys' = bookmark_keys]_vars

\* the part of C36 that holds: the payloads of the other events and the
\* bookmarks are left alone
MarkReadKeepsOthers ==
    [][\A id \in KnownIds :
          MarksRead(id) => (OtherPayloadsKept(id) /\ bookmark_keys' = bookmark_keys)]_vars

\* the index is left as it was when the event is in it or was trimmed from it
MarkReadKeepsIndexOfIndexed ==
    [][\A id \in KnownIds :
          (MarksRead(id) /\ id \in indexed_ever)
              => sorted_global' = sorted_global]_vars

(***************************************************************************)
(* Claims on the two parts of the cache.                                   *)
(***************************************************************************)
(* C37 (as the spec states it): the keys of activity_cache are the ids of
   the events of recent_activities, so there are no more than max_activities
   of them. *)
C37_CacheMapMatchesList ==
    /\ DOMAIN activity_cache = Range(recent_activities)
    /\ Cardinality(DOMAIN activity_cache) <= max_activities

\* the part of C37 that holds: the list is bounded, and every event of the
\* list is in the map
CacheListWithinMap ==
    /\ Len(recent_activities) <= max_activities
    /\ Range(recent_activities) \subseteq DOMAIN activity_cache

(***************************************************************************)
(* Claims on the counters of activity:stats:global.                        *)
(***************************************************************************)
\* every call of add_activity has returned
AllReturned == \A p \in Procs : pc[p] = "idle"

\* the values of an enum
EnumValues(enum) == {enum[m] : m \in DOMAIN enum}

\* the sum of the counters of one kind ("type" or "priority")
RECURSIVE KindSum(_, _)
KindSum(kind, values) ==
    IF values = {} THEN 0
    ELSE LET v == CHOOSE x \in values : TRUE
         IN  Counter(stats_global.counters, <<kind, v>>) + KindSum(kind, values \ {v})

(* C38 (as the spec states it): when n calls of add_activity have all
   returned, whatever their interleaving, activity:stats:global has
   total_count = n, and its counters by type and by priority sum to n
   each. *)
C38_CountersExact ==
    AllReturned =>
        /\ Counter(stats_global.counters, <<"total", "count">>) = Len(appended)
        /\ KindSum("type", EnumValues(ActivityType)) = Len(appended)
        /\ KindSum("priority", EnumValues(ActivityPriority)) = Len(appended)

\* the part of C38 that holds in every interleaving: the three kinds of
\* counters agree with each other
CountersAgree ==
    /\ KindSum("type", EnumValues(ActivityType))
          = Counter(stats_global.counters, <<"total", "count">>)
    /\ KindSum("priority", EnumValues(ActivityPriority))
          = Counter(stats_global.counters, <<"total", "count">>)

(***************************************************************************)
(* Claims on the calls of disconnect inside disconnect.                    *)
(***************************************************************************)
\* how often the step called disconnect(c)
DisconnectsIn(c) == disconnect_calls'[c] - disconnect_calls[c]

(* C39: the calls of disconnect that one step sets off, through the notice
   to group admin and the sends of it that fail, come to an end: each of
   them is for another connection id, and each id it was called for is out
   of active_connections and of every group afterwards. *)
C39_DisconnectChainsEnd ==
    [][\A c \in DOMAIN disconnect_calls :
          /\ DisconnectsIn(c) <= 1
          /\ DisconnectsIn(c) = 1 =>
                /\ c \notin DOMAIN active_connections'
                /\ \A g \in DOMAIN connection_groups' : c \notin connection_groups'[g]]_vars

\* the admins 1 and 2 and a client 3 were connected, the transports of 1 and
\* 2 broke, and the client 3 left: the notice of it failed on 1, whose
\* disconnect sent a notice that failed on 2, and nobody is registered any
\* more
C39_Witness ==
    /\ \E s1, s2 \in DOMAIN sockets :
          /\ handlers = {<<1, s1, "admin">>, <<2, s2, "admin">>}
          /\ sockets[s1] = "BROKEN"
          /\ sockets[s2] = "BROKEN"
    /\ DOMAIN active_connections = {}
    /\ \A c \in {1, 2, 3} : disconnect_calls[c] = 1
    /\ \E i \in 1..(Len(recent_messages) - 1) :
          /\ recent_messages[i] = GoodbyeMessage(3, 2)
          /\ recent_messages[i + 1] = GoodbyeMessage(1, 1)

=============================================================================
